---- MODULE Spec2Model ----
(***************************************************************************)
(* Procedure (custom block) mutation and synchronisation of scratch-blocks *)
(* src/procedures.ts, src/blocks/sensing.ts (procedure blocks),            *)
(* src/blocks/vertical_extensions.ts, src/scratch_dragger.ts.              *)
(*                                                                         *)
(* A signature string (procCode) is a sequence of one-character strings.   *)
(* A block is a record; the workspace is the sequence of all blocks ever   *)
(* created, a block's id being its index.                                  *)
(***************************************************************************)
EXTENDS Integers, Sequences, FiniteSets, TLC

\* Number of times the procedure editor is opened in one behaviour.
MaxEdits == 1

\* Longest signature string loaded into a fresh block.
MaxLen == 4

\* Number of operations on the declaration editor in one behaviour.
MaxOps == 3

Min(S) == CHOOSE x \in S : \A y \in S : x <= y

----------------------------------------------------------------------------
(* Strings: String.prototype.trim, split, substring, replace as used by    *)
(* createAllInputs_.                                                       *)

RECURSIVE TrimLeft(_)
TrimLeft(s) == IF s # <<>> /\ s[1] = " " THEN TrimLeft(Tail(s)) ELSE s

RECURSIVE TrimRight(_)
TrimRight(s) ==
  IF s # <<>> /\ s[Len(s)] = " " THEN TrimRight(SubSeq(s, 1, Len(s) - 1)) ELSE s

trim(s) == TrimRight(TrimLeft(s))

\* The positions at which /(?=[^\\]%[nbs])/ matches: a character other than
\* a backslash followed by %n, %b or %s.  split() never cuts at the start of
\* the string, so the first position is left out.
SplitPoints(s) ==
  {k \in 2..(Len(s) - 2) :
     s[k] # "\\" /\ s[k + 1] = "%" /\ s[k + 2] \in {"n", "b", "s"}}

RECURSIVE SplitFrom(_, _)
SplitFrom(s, p) ==
  LET later == {k \in SplitPoints(s) : k > p}
  IN  IF later = {} THEN <<SubSeq(s, p, Len(s))>>
      ELSE <<SubSeq(s, p, Min(later) - 1)>> \o SplitFrom(s, Min(later))

\* procCode_.split(/(?=[^\\]%[nbs])/).map(c => c.trim())
procComponents(s) ==
  LET parts == SplitFrom(s, 1)
  IN  [i \in 1..Len(parts) |-> trim(parts[i])]

\* labelText.replace(/\\%/, "%"): the first escaped percent sign only.
RECURSIVE unescapeLabel(_)
unescapeLabel(t) ==
  IF Len(t) < 2 THEN t
  ELSE IF t[1] = "\\" /\ t[2] = "%" THEN <<"%">> \o SubSeq(t, 3, Len(t))
  ELSE <<t[1]>> \o unescapeLabel(Tail(t))

\* enum ArgumentType
ArgumentType == {"s", "n", "b"}

----------------------------------------------------------------------------
(* Blocks.                                                                 *)

PROCEDURES_DEFINITION_BLOCK_TYPE == "procedures_definition"
PROCEDURES_PROTOTYPE_BLOCK_TYPE  == "procedures_prototype"
PROCEDURES_CALL_BLOCK_TYPE       == "procedures_call"
PROCEDURES_DECLARATION_BLOCK_TYPE == "procedures_declaration"

\* The output check a block type is given by its output_* extension.
OutputCheck(type) ==
  CASE type = "argument_reporter_boolean"       -> "Boolean"
    [] type = "argument_reporter_string_number" -> "String"
    [] type = "sensing_mousedown"               -> "Boolean"
    [] type = "sensing_mousex"                  -> "Number"
    [] type = "math_number"                     -> "Number"
    [] type = "text"                            -> "String"
    [] type = "argument_editor_boolean"         -> "Boolean"
    [] type = "argument_editor_string_number"   -> "String"
    [] OTHER                                    -> ""

\* workspace.newBlock(type): a block with no parent, no inputs, and (for the
\* procedure blocks) the fields their init functions set.
NewBlock(type) ==
  [type |-> type, alive |-> TRUE, shadow |-> FALSE, parent |-> 0, slot |-> "",
   value |-> "", procCode |-> <<>>, argumentIds |-> <<>>,
   displayNames |-> <<>>, argumentDefaults |-> <<>>, warp |-> FALSE,
   generateShadows |-> FALSE, inputs |-> <<>>]

ValueInput(name, check) ==
  [type |-> "value", name |-> name, check |-> check, text |-> <<>>,
   shadowDom |-> ""]

DummyInput(text) ==
  [type |-> "dummy", name |-> "", check |-> "", text |-> text,
   shadowDom |-> ""]

Ids(bs) == 1..Len(bs)

\* block.getChildren(): the live blocks plugged into b, in id order.
Children(bs, b) == {c \in Ids(bs) : bs[c].alive /\ bs[c].parent = b}

RECURSIVE Descendants(_, _)
Descendants(bs, b) ==
  {b} \cup UNION {Descendants(bs, c) : c \in Children(bs, b)}

\* input.connection.targetBlock() of the input called name; 0 when empty.
targetBlock(bs, b, name) ==
  LET t == {c \in Children(bs, b) : bs[c].slot = name}
  IN  IF t = {} THEN 0 ELSE Min(t)

isProcedureBlock(bs, b) ==
  bs[b].type \in {PROCEDURES_CALL_BLOCK_TYPE,
                  PROCEDURES_DECLARATION_BLOCK_TYPE,
                  PROCEDURES_PROTOTYPE_BLOCK_TYPE}

getProcCode(bs, b) == bs[b].procCode

----------------------------------------------------------------------------
(* The part of the toolkit the procedure code calls: a world w carries     *)
(* the blocks, the event log, the current event group, the next unused     *)
(* group id and whether an exception is propagating.                       *)

\* Blockly.Events.fire(new Event(block)): the event takes the current group.
fireEvent(w, type, b, isOutside) ==
  [w EXCEPT !.events = Append(@, [type |-> type, block |-> b,
                                  group |-> w.group, isOutside |-> isOutside])]

fire(w, type, b) == fireEvent(w, type, b, FALSE)

\* Blockly.Events.setGroup(true) draws a fresh id, setGroup(false) clears.
setGroup(w, state) ==
  IF state THEN [w EXCEPT !.group = w.nextGroup, !.nextGroup = @ + 1]
  ELSE [w EXCEPT !.group = 0]

InputNamed(bs, b, name) ==
  LET i == CHOOSE i \in 1..Len(bs[b].inputs) : bs[b].inputs[i].name = name
  IN  bs[b].inputs[i]

\* The connection checker: an unchecked socket takes any block, a checked one
\* only a block whose output check is the same.
canConnect(bs, c, b, name) ==
  \/ InputNamed(bs, b, name).check = ""
  \/ OutputCheck(bs[c].type) = ""
  \/ OutputCheck(bs[c].type) = InputNamed(bs, b, name).check

\* connection.connect(): plugs block c into the input called name of block
\* b when the checker allows it, and changes nothing otherwise.
connect(w, c, b, name) ==
  IF canConnect(w.blocks, c, b, name)
  THEN fire([w EXCEPT !.blocks[c].parent = b, !.blocks[c].slot = name],
            "move", c)
  ELSE w

\* connection.disconnect(): the child becomes a top block of the workspace.
disconnect(w, c) ==
  fire([w EXCEPT !.blocks[c].parent = 0, !.blocks[c].slot = ""], "move", c)

\* block.dispose(): the block and everything plugged into it are gone.
dispose(w, b) ==
  LET dead == Descendants(w.blocks, b)
      bs == [i \in Ids(w.blocks) |->
               IF i \in dead
               THEN [w.blocks[i] EXCEPT !.alive = FALSE,
                       !.parent = IF i = b THEN 0 ELSE @,
                       !.slot = IF i = b THEN "" ELSE @]
               ELSE w.blocks[i]]
  IN  fire([w EXCEPT !.blocks = bs], "delete", b)

----------------------------------------------------------------------------
(* Mutation synchroniser, shared by the three procedure blocks.            *)

NullInfo == [block |-> 0, shadow |-> "", null |-> TRUE]

ValueInputNames(bs, b) ==
  LET vs == SelectSeq(bs[b].inputs, LAMBDA i : i.type = "value")
  IN  [k \in 1..Len(vs) |-> vs[k].name]

RECURSIVE disconnectTargets(_, _, _, _)
disconnectTargets(w, b, names, k) ==
  IF k > Len(names) THEN w
  ELSE LET target == targetBlock(w.blocks, b, names[k])
       IN  disconnectTargets(IF target # 0 THEN disconnect(w, target) ELSE w,
                             b, names, k + 1)

\* Returns the world with every value input's block detached, and the map
\* from input name to what was attached.
disconnectOldBlocks_(w, b) ==
  LET names == ValueInputNames(w.blocks, b)
      connectionMap ==
        [n \in {names[k] : k \in 1..Len(names)} |->
           [block |-> targetBlock(w.blocks, b, n),
            shadow |-> InputNamed(w.blocks, b, n).shadowDom,
            null |-> FALSE]]
  IN  [w |-> disconnectTargets(w, b, names, 1), cm |-> connectionMap,
       names |-> names]

removeAllInputs_(w, b) == [w EXCEPT !.blocks[b].inputs = <<>>]

appendValueInput(w, b, id, check) ==
  [w EXCEPT !.blocks[b].inputs = Append(@, ValueInput(id, check))]

\* addLabelField_: a dummy input holding the label, empty or not.
addLabelField_(w, b, text) ==
  [w EXCEPT !.blocks[b].inputs = Append(@, DummyInput(text))]

\* buildShadowDom_: the type of the shadow the DOM describes.
buildShadowDom_(type) == IF type = "n" THEN "math_number" ELSE "text"

setShadowDom(w, b, name, dom) ==
  [w EXCEPT !.blocks[b].inputs =
     [i \in 1..Len(@) |-> IF @[i].name = name
                          THEN [@[i] EXCEPT !.shadowDom = dom] ELSE @[i]]]
\* attachShadow_ that gives a string argument the shadow of a number
\* argument.
attachShadow_numberForString(w, b, name, argumentType) ==
  IF argumentType \in {"n", "s"}
  THEN LET newBlock == [NewBlock("math_number") EXCEPT
                          !.value = "1", !.shadow = TRUE]
           id == Len(w.blocks) + 1
           w1 == [w EXCEPT !.blocks = Append(@, newBlock)]
       IN  connect(fire(w1, "create", id), id, b, name)
  ELSE w

\* attachShadow_: a new shadow block for a number or string argument, none
\* for a boolean one.
attachShadow_(w, b, name, argumentType) ==
  IF argumentType \in {"n", "s"}
  THEN LET blockType == IF argumentType = "n" THEN "math_number" ELSE "text"
           newBlock == [NewBlock(blockType) EXCEPT
                          !.value = IF argumentType = "n" THEN "1" ELSE "",
                          !.shadow = TRUE]
           id == Len(w.blocks) + 1
           w1 == [w EXCEPT !.blocks = Append(@, newBlock)]
       IN  connect(fire(w1, "create", id), id, b, name)
  ELSE w

\* createArgumentReporter_: returns the world and the id of the new block.
createArgumentReporter_(w, argumentType, displayName) ==
  LET blockType == IF argumentType \in {"n", "s"}
                   THEN "argument_reporter_string_number"
                   ELSE "argument_reporter_boolean"
      newBlock == [NewBlock(blockType) EXCEPT !.shadow = TRUE,
                                               !.value = displayName]
      id == Len(w.blocks) + 1
  IN  [w |-> fire([w EXCEPT !.blocks = Append(@, newBlock)], "create", id),
       block |-> id]

\* populateArgumentOnCaller_ without "connectionMap[input.name] = null": the
\* reattached block stays in the map.
populateArgumentOnCaller_keepsEntry(w, b, type, index, cm, id) ==
  LET oldBlock == IF id \in DOMAIN cm THEN cm[id].block ELSE 0
      oldShadow == IF id \in DOMAIN cm THEN cm[id].shadow ELSE ""
  IN  IF oldBlock # 0
      THEN [w |-> IF type # "b" /\ w.blocks[b].generateShadows
                  THEN setShadowDom(connect(w, oldBlock, b, id), b, id,
                         IF oldShadow # "" THEN oldShadow
                         ELSE buildShadowDom_(type))
                  ELSE connect(w, oldBlock, b, id),
            cm |-> cm]
      ELSE IF w.blocks[b].generateShadows
      THEN [w |-> attachShadow_(w, b, id, type), cm |-> cm]
      ELSE [w |-> w, cm |-> cm]

\* Reading a property of the null left in the map by an earlier reattachment
\* is a TypeError.
populateArgumentOnCaller_(w, b, type, index, cm, id) ==
  IF id \in DOMAIN cm /\ cm[id].null
  THEN [w |-> [w EXCEPT !.thrown = TRUE], cm |-> cm]
  ELSE
  LET oldBlock == IF id \in DOMAIN cm THEN cm[id].block ELSE 0
      oldShadow == IF id \in DOMAIN cm THEN cm[id].shadow ELSE ""
  IN  IF oldBlock # 0
      THEN LET w1 == connect(w, oldBlock, b, id)
               w2 == IF type # "b" /\ w.blocks[b].generateShadows
                     THEN setShadowDom(w1, b, id,
                            IF oldShadow # "" THEN oldShadow
                            ELSE buildShadowDom_(type))
                     ELSE w1
           IN  [w |-> w2, cm |-> [cm EXCEPT ![id] = NullInfo]]
      ELSE IF w.blocks[b].generateShadows
      THEN [w |-> attachShadow_(w, b, id, type), cm |-> cm]
      ELSE [w |-> w, cm |-> cm]
\* checkOldTypeMatches_ that never finds a match.
checkOldTypeMatches_never(bs, oldBlock, type) == FALSE

checkOldTypeMatches_(bs, oldBlock, type) ==
  IF oldBlock = 0 THEN FALSE
  ELSE IF type \in {"n", "s"}
          /\ bs[oldBlock].type = "argument_reporter_string_number" THEN TRUE
  ELSE IF type = "b" /\ bs[oldBlock].type = "argument_reporter_boolean"
  THEN TRUE
  ELSE FALSE

populateArgumentOnPrototype_(w, b, type, index, cm, id) ==
  IF id \in DOMAIN cm /\ cm[id].null
  THEN [w |-> [w EXCEPT !.thrown = TRUE], cm |-> cm]
  ELSE
  LET oldBlock == IF id \in DOMAIN cm THEN cm[id].block ELSE 0
      oldTypeMatches == checkOldTypeMatches_(w.blocks, oldBlock, type)
      displayName == IF index + 1 <= Len(w.blocks[b].displayNames)
                     THEN w.blocks[b].displayNames[index + 1]
                     ELSE "undefined"
  IN  IF oldBlock # 0 /\ oldTypeMatches
      THEN [w |-> connect([w EXCEPT !.blocks[oldBlock].value = displayName],
                          oldBlock, b, id),
            cm |-> [cm EXCEPT ![id] = NullInfo]]
      ELSE LET r == createArgumentReporter_(w, type, displayName)
           IN  [w |-> connect(r.w, r.block, b, id), cm |-> cm]

\* createArgumentEditor_: returns the world and the id of the new block.
createArgumentEditor_(w, argumentType, displayName) ==
  LET blockType == IF argumentType \in {"n", "s"}
                   THEN "argument_editor_string_number"
                   ELSE "argument_editor_boolean"
      newBlock == [NewBlock(blockType) EXCEPT !.shadow = TRUE,
                                               !.value = displayName]
      id == Len(w.blocks) + 1
  IN  [w |-> fire([w EXCEPT !.blocks = Append(@, newBlock)], "create", id),
       block |-> id]

populateArgumentOnDeclaration_(w, b, type, index, cm, id) ==
  IF id \in DOMAIN cm /\ cm[id].null
  THEN [w |-> [w EXCEPT !.thrown = TRUE], cm |-> cm]
  ELSE
  LET oldBlock == IF id \in DOMAIN cm THEN cm[id].block ELSE 0
      oldTypeMatches == checkOldTypeMatches_(w.blocks, oldBlock, type)
      displayName == IF index + 1 <= Len(w.blocks[b].displayNames)
                     THEN w.blocks[b].displayNames[index + 1]
                     ELSE "undefined"
  IN  IF oldBlock # 0 /\ oldTypeMatches
      THEN [w |-> connect([w EXCEPT !.blocks[oldBlock].value = displayName],
                          oldBlock, b, id),
            cm |-> [cm EXCEPT ![id] = NullInfo]]
      ELSE LET r == createArgumentEditor_(w, type, displayName)
           IN  [w |-> connect(r.w, r.block, b, id), cm |-> cm]

\* this.populateArgument_, bound per block type in the init functions.
populateArgument_(w, b, type, index, cm, id) ==
  IF w.blocks[b].type = PROCEDURES_CALL_BLOCK_TYPE
  THEN populateArgumentOnCaller_(w, b, type, index, cm, id)
  ELSE IF w.blocks[b].type = PROCEDURES_DECLARATION_BLOCK_TYPE
  THEN populateArgumentOnDeclaration_(w, b, type, index, cm, id)
  ELSE populateArgumentOnPrototype_(w, b, type, index, cm, id)

\* addLabelEditor_: a label editor, none for an empty text.
addLabelEditor_(w, b, text) ==
  IF text # <<>> THEN addLabelField_(w, b, text) ELSE w

\* this.addProcedureLabel_, bound per block type in the init functions.
addProcedureLabel_(w, b, text) ==
  IF w.blocks[b].type = PROCEDURES_DECLARATION_BLOCK_TYPE
  THEN addLabelEditor_(w, b, text)
  ELSE addLabelField_(w, b, text)

\* component.substring(0, 1) === "%"
isArgument(component) == Len(component) >= 1 /\ component[1] = "%"

\* this.argumentIds_[argumentCount]
idAt(ids, argumentCount) ==
  IF argumentCount + 1 <= Len(ids) THEN ids[argumentCount + 1] ELSE "undefined"

\* The label that follows an argument: r is what populateArgument_ left.
labelAfter(r, b, labelText) ==
  [w |-> IF r.w.thrown THEN r.w
         ELSE addProcedureLabel_(r.w, b, unescapeLabel(labelText)),
   cm |-> r.cm]

\* One turn of the loop over procComponents: the world and the map.
createComponent(w, b, cm, component, argumentCount) ==
  IF isArgument(component)
  THEN IF (IF Len(component) >= 2 THEN component[2] ELSE "")
             \notin {"n", "b", "s"}
       THEN \* throw new Error("... invalid type: " + argumentType)
            [w |-> [w EXCEPT !.thrown = TRUE], cm |-> cm]
       ELSE labelAfter(
              populateArgument_(
                appendValueInput(w, b, idAt(w.blocks[b].argumentIds,
                                            argumentCount),
                                 IF component[2] = "b" THEN "Boolean" ELSE ""),
                b, component[2], argumentCount, cm,
                idAt(w.blocks[b].argumentIds, argumentCount)),
              b, trim(SubSeq(component, 3, Len(component))))
  ELSE [w |-> addProcedureLabel_(w, b, unescapeLabel(trim(component))),
        cm |-> cm]

RECURSIVE createComponents(_, _, _, _, _)
createComponents(r, b, comps, i, argumentCount) ==
  IF r.w.thrown \/ i > Len(comps) THEN r
  ELSE createComponents(
         createComponent(r.w, b, r.cm, comps[i], argumentCount),
         b, comps, i + 1,
         IF isArgument(comps[i]) THEN argumentCount + 1 ELSE argumentCount)

createAllInputs_(w, b, connectionMap) ==
  createComponents([w |-> w, cm |-> connectionMap], b,
                   procComponents(w.blocks[b].procCode), 1, 0)

RECURSIVE deleteShadowsFrom(_, _, _, _)
deleteShadowsFrom(w, cm, names, k) ==
  IF k > Len(names) THEN w
  ELSE LET saveInfo == cm[names[k]]
       IN  deleteShadowsFrom(
             IF ~saveInfo.null /\ saveInfo.block # 0
                /\ w.blocks[saveInfo.block].shadow
             THEN dispose(w, saveInfo.block) ELSE w,
             cm, names, k + 1)

\* deleteShadows_ that disposes nothing.
deleteShadows_keepsAll(w, connectionMap, names) == w

\* names: the keys of connectionMap in insertion order.
deleteShadows_(w, connectionMap, names) ==
  deleteShadowsFrom(w, connectionMap, names, 1)

\* The last two steps of updateDisplay_, d being what disconnectOldBlocks_
\* returned and c what createAllInputs_ left; an exception skips
\* deleteShadows_.
finishDisplay(c, names) ==
  IF c.w.thrown THEN c.w ELSE deleteShadows_(c.w, c.cm, names)

rebuildDisplay(d, b) ==
  finishDisplay(createAllInputs_(removeAllInputs_(d.w, b), b, d.cm), d.names)

updateDisplay_(w, b) == rebuildDisplay(disconnectOldBlocks_(w, b), b)

----------------------------------------------------------------------------
(* Serialisation.  A mutation element is a record of its attributes; has   *)
(* lists the attributes that are set, the others read as null.             *)

JSONstringifyBool(v) == IF v THEN "true" ELSE "false"
\* JSON.parse of "true", "false" or of the null of a missing attribute; the
\* flags are only tested for truth, so null reads as FALSE.
JSONparseBool(t) == t = "true"

callerMutationToDom(bs, b) ==
  [has |-> {"proccode", "argumentids", "warp"},
   proccode |-> bs[b].procCode,
   argumentids |-> bs[b].argumentIds,
   argumentnames |-> <<>>,
   argumentdefaults |-> <<>>,
   warp |-> JSONstringifyBool(bs[b].warp),
   generateshadows |-> ""]

definitionMutationToDom(bs, b, opt_generateShadows) ==
  [has |-> {"proccode", "argumentids", "argumentnames", "argumentdefaults",
            "warp"}
           \cup (IF opt_generateShadows THEN {"generateshadows"} ELSE {}),
   proccode |-> bs[b].procCode,
   argumentids |-> bs[b].argumentIds,
   argumentnames |-> bs[b].displayNames,
   argumentdefaults |-> bs[b].argumentDefaults,
   warp |-> JSONstringifyBool(bs[b].warp),
   generateshadows |-> IF opt_generateShadows THEN "true" ELSE ""]

\* block.mutationToDom(), bound per block type in the init functions.
mutationToDom(bs, b) ==
  IF bs[b].type = PROCEDURES_CALL_BLOCK_TYPE
  THEN callerMutationToDom(bs, b)
  ELSE definitionMutationToDom(bs, b, FALSE)

callerDomToMutation(w, b, xmlElement) ==
  updateDisplay_(
    [w EXCEPT !.blocks[b].procCode = xmlElement.proccode,
              !.blocks[b].generateShadows =
                 JSONparseBool(xmlElement.generateshadows),
              !.blocks[b].argumentIds = xmlElement.argumentids,
              !.blocks[b].warp = JSONparseBool(xmlElement.warp)],
    b)

\* The first position of id in ids, 0 when absent (indexOf + 1).
indexOf(ids, id) ==
  IF \E i \in 1..Len(ids) : ids[i] = id
  THEN Min({i \in 1..Len(ids) : ids[i] = id}) ELSE 0

\* nameChanges that looks the previous name up at the argument's new
\* position instead of at the position its id had.
nameChangesByPosition(bs, b, prevArgIds, prevDisplayNames, argReporters) ==
  LET ids == bs[b].argumentIds
      prevName(i) == IF i + 1 <= Len(prevDisplayNames)
                     THEN prevDisplayNames[i + 1] ELSE "undefined"
      changed(i) ==
        /\ indexOf(prevArgIds, ids[i]) # 0
        /\ prevName(i) # bs[b].displayNames[i]
      idx == SelectSeq([i \in 1..Len(ids) |-> i], changed)
  IN  [k \in 1..Len(idx) |->
         [newName |-> bs[b].displayNames[idx[k]],
          blocks |-> {r \in argReporters : bs[r].value = prevName(idx[k])}]]

\* The name changes, in argument order: the new name and the reporters that
\* carry the previous name.
nameChanges(bs, b, prevArgIds, prevDisplayNames, argReporters) ==
  LET ids == bs[b].argumentIds
      changed(i) ==
        /\ indexOf(prevArgIds, ids[i]) # 0
        /\ prevDisplayNames[indexOf(prevArgIds, ids[i])] # bs[b].displayNames[i]
      idx == SelectSeq([i \in 1..Len(ids) |-> i], changed)
  IN  [k \in 1..Len(idx) |->
         [newName |-> bs[b].displayNames[idx[k]],
          blocks |-> {r \in argReporters :
                        bs[r].value =
                          prevDisplayNames[indexOf(prevArgIds, ids[idx[k]])]}]]
\* applyNameChanges that looks for the reporters carrying the previous name
\* when it applies a change, after the changes before it were applied.
RECURSIVE applyNameChangesInTurn(_, _, _)
applyNameChangesInTurn(bs, changes, k) ==
  IF k > Len(changes) THEN bs
  ELSE applyNameChangesInTurn(
         [r \in Ids(bs) |->
            IF /\ \E j \in 1..Len(changes) : r \in changes[j].blocks
               /\ \E q \in changes[k].blocks : bs[q].value = bs[r].value
            THEN [bs[r] EXCEPT !.value = changes[k].newName] ELSE bs[r]],
         changes, k + 1)

RECURSIVE applyNameChanges(_, _, _)
applyNameChanges(bs, changes, k) ==
  IF k > Len(changes) THEN bs
  ELSE applyNameChanges(
         [r \in Ids(bs) |->
            IF r \in changes[k].blocks
            THEN [bs[r] EXCEPT !.value = changes[k].newName] ELSE bs[r]],
         changes, k + 1)

\* updateArgumentReporterNames_ that collects the argument reporters of the
\* whole workspace instead of those below the definition block.
updateArgumentReporterNames_everywhere(w, b, prevArgIds, prevDisplayNames) ==
  LET argReporters ==
        {r \in Ids(w.blocks) :
           /\ w.blocks[r].alive
           /\ w.blocks[r].type \in {"argument_reporter_string_number",
                                    "argument_reporter_boolean"}
           /\ ~w.blocks[r].shadow}
  IN  IF w.blocks[b].parent = 0 THEN w
      ELSE [w EXCEPT !.blocks =
              applyNameChanges(w.blocks,
                nameChanges(w.blocks, b, prevArgIds, prevDisplayNames,
                            argReporters), 1)]

updateArgumentReporterNames_(w, b, prevArgIds, prevDisplayNames) ==
  LET definitionBlock == w.blocks[b].parent
      argReporters ==
        {r \in Descendants(w.blocks, definitionBlock) :
           /\ w.blocks[r].type \in {"argument_reporter_string_number",
                                    "argument_reporter_boolean"}
           /\ ~w.blocks[r].shadow}
  IN  IF definitionBlock = 0 THEN w
      ELSE [w EXCEPT !.blocks =
              applyNameChanges(w.blocks,
                nameChanges(w.blocks, b, prevArgIds, prevDisplayNames,
                            argReporters), 1)]

\* The end of definitionDomToMutation: only the prototype block has
\* updateArgumentReporterNames_.
renameReporters(w1, b, prevArgIds, prevDisplayNames) ==
  IF w1.thrown \/ w1.blocks[b].type # PROCEDURES_PROTOTYPE_BLOCK_TYPE THEN w1
  ELSE updateArgumentReporterNames_(w1, b, prevArgIds, prevDisplayNames)
\* definitionDomToMutation that does not read the argumentdefaults attribute.
definitionDomToMutation_dropsDefaults(w, b, xmlElement) ==
  renameReporters(
    updateDisplay_(
      [w EXCEPT !.blocks[b].procCode = xmlElement.proccode,
                !.blocks[b].warp = JSONparseBool(xmlElement.warp),
                !.blocks[b].argumentIds = xmlElement.argumentids,
                !.blocks[b].displayNames = xmlElement.argumentnames],
      b),
    b, w.blocks[b].argumentIds, w.blocks[b].displayNames)

definitionDomToMutation(w, b, xmlElement) ==
  renameReporters(
    updateDisplay_(
      [w EXCEPT !.blocks[b].procCode = xmlElement.proccode,
                !.blocks[b].warp = JSONparseBool(xmlElement.warp),
                !.blocks[b].argumentIds = xmlElement.argumentids,
                !.blocks[b].displayNames = xmlElement.argumentnames,
                !.blocks[b].argumentDefaults = xmlElement.argumentdefaults],
      b),
    b, w.blocks[b].argumentIds, w.blocks[b].displayNames)

\* block.domToMutation(xml), bound per block type in the init functions.
domToMutation(w, b, xmlElement) ==
  IF w.blocks[b].type = PROCEDURES_CALL_BLOCK_TYPE
  THEN callerDomToMutation(w, b, xmlElement)
  ELSE definitionDomToMutation(w, b, xmlElement)

----------------------------------------------------------------------------
(* The declaration block of the procedure editor.                          *)

\* Blockly.utils.idGenerator.genUid(): an id never given before.
genUid(w) == "u" \o ToString(w.uid)

\* What the loop of updateDeclarationProcCode_ has written after the inputs
\* before i; a value input without a block ends it with a TypeError.
RECURSIVE serialiseInputs(_, _, _, _)
serialiseInputs(bs, b, i, acc) ==
  IF i > Len(bs[b].inputs) \/ acc.thrown THEN acc
  ELSE serialiseInputs(bs, b, i + 1,
         LET input == bs[b].inputs[i]
             sep == IF i # 1 THEN <<" ">> ELSE <<>>
             target == targetBlock(bs, b, input.name)
         IN  IF input.type = "dummy"
             THEN [acc EXCEPT !.procCode = @ \o sep \o input.text]
             ELSE IF target = 0
             THEN [acc EXCEPT !.procCode = @ \o sep, !.thrown = TRUE]
             ELSE [acc EXCEPT
                     !.procCode =
                        @ \o sep \o
                        (IF bs[target].type = "argument_editor_boolean"
                         THEN <<"%", "b">> ELSE <<"%", "s">>),
                     !.displayNames = Append(@, bs[target].value),
                     !.argumentIds = Append(@, input.name)])

\* this.onChangeFn of the declaration block.
updateDeclarationProcCode_(w, b) ==
  LET acc == serialiseInputs(w.blocks, b, 1,
               [procCode |-> <<>>, displayNames |-> <<>>,
                argumentIds |-> <<>>, thrown |-> FALSE])
  IN  [w EXCEPT !.blocks[b].procCode = acc.procCode,
                !.blocks[b].displayNames = acc.displayNames,
                !.blocks[b].argumentIds = acc.argumentIds,
                !.thrown = acc.thrown]

addLabelExternal(w, b) ==
  updateDisplay_(
    [w EXCEPT !.blocks[b].procCode =
                 @ \o <<" ", "l", "a", "b", "e", "l", " ",
                        "t", "e", "x", "t">>],
    b)

addBooleanExternal(w, b) ==
  updateDisplay_(
    [w EXCEPT !.blocks[b].procCode = @ \o <<" ", "%", "b">>,
              !.blocks[b].displayNames = Append(@, "boolean"),
              !.blocks[b].argumentIds = Append(@, genUid(w)),
              !.blocks[b].argumentDefaults = Append(@, "false"),
              !.uid = @ + 1],
    b)

addStringNumberExternal(w, b) ==
  updateDisplay_(
    [w EXCEPT !.blocks[b].procCode = @ \o <<" ", "%", "s">>,
              !.blocks[b].displayNames = Append(@, "number or text"),
              !.blocks[b].argumentIds = Append(@, genUid(w)),
              !.blocks[b].argumentDefaults = Append(@, ""),
              !.uid = @ + 1],
    b)

\* block.removeInput of the n-th input: the input goes, and with it the
\* shadow block plugged into it.
removeInput(w, b, n) ==
  LET target == targetBlock(w.blocks, b, w.blocks[b].inputs[n].name)
      inputs == w.blocks[b].inputs
      rest == [i \in 1..(Len(inputs) - 1) |->
                 IF i < n THEN inputs[i] ELSE inputs[i + 1]]
  IN  IF w.blocks[b].inputs[n].type = "value" /\ target # 0
      THEN [dispose(w, target) EXCEPT !.blocks[b].inputs = rest]
      ELSE [w EXCEPT !.blocks[b].inputs = rest]

\* The rebuild that ends removeFieldCallback, skipped when onChangeFn threw.
redisplay(w, b) == IF w.thrown THEN w ELSE updateDisplay_(w, b)

\* removeFieldCallback for the field of the n-th input: the label of a dummy
\* input, or the text of the editor plugged into a value input.
removeFieldCallback(w, b, n) ==
  IF Len(w.blocks[b].inputs) = 1 THEN w
  ELSE IF w.blocks[b].inputs[n].type = "value"
          /\ w.blocks[b].inputs[n].name = "undefined"
  THEN w
  ELSE redisplay(updateDeclarationProcCode_(removeInput(w, b, n), b), b)

----------------------------------------------------------------------------
(* src/procedures.ts                                                       *)

RECURSIVE SortedSeq(_)
SortedSeq(S) == IF S = {} THEN <<>> ELSE <<Min(S)>> \o SortedSeq(S \ {Min(S)})

RECURSIVE Concat(_, _)
Concat(seqs, k) == IF k > Len(seqs) THEN <<>> ELSE seqs[k] \o Concat(seqs, k + 1)

\* block.getDescendants(false): the block, then each child's descendants.
RECURSIVE getDescendants(_, _)
getDescendants(bs, b) ==
  LET cs == SortedSeq(Children(bs, b))
  IN  <<b>> \o Concat([k \in 1..Len(cs) |-> getDescendants(bs, cs[k])], 1)

\* workspace.getTopBlocks(): the live blocks that have no parent.
getTopBlocks(bs) == SortedSeq({b \in Ids(bs) : bs[b].alive /\ bs[b].parent = 0})

\* getCallers that skips the definition's own stack whatever allowRecursive
\* says.
getCallersNeverRecursive(bs, name, definitionRoot, allowRecursive) ==
  LET tops == getTopBlocks(bs)
      callsUnder(block) ==
        IF block = definitionRoot THEN <<>>
        ELSE SelectSeq(getDescendants(bs, block),
               LAMBDA d : /\ isProcedureBlock(bs, d)
                          /\ bs[d].type = PROCEDURES_CALL_BLOCK_TYPE
                          /\ getProcCode(bs, d) = name)
  IN  Concat([k \in 1..Len(tops) |-> callsUnder(tops[k])], 1)

getCallers(bs, name, definitionRoot, allowRecursive) ==
  LET tops == getTopBlocks(bs)
      callsUnder(block) ==
        IF block = definitionRoot /\ ~allowRecursive THEN <<>>
        ELSE SelectSeq(getDescendants(bs, block),
               LAMBDA d : /\ isProcedureBlock(bs, d)
                          /\ bs[d].type = PROCEDURES_CALL_BLOCK_TYPE
                          /\ getProcCode(bs, d) = name)
  IN  Concat([k \in 1..Len(tops) |-> callsUnder(tops[k])], 1)

\* The first top-level definition whose prototype carries procCode; 0 for
\* undefined.  Every definition block of the model holds a prototype.
getDefineBlock(bs, procCode) ==
  LET found ==
        {b \in Ids(bs) :
           /\ bs[b].alive /\ bs[b].parent = 0
           /\ bs[b].type = PROCEDURES_DEFINITION_BLOCK_TYPE
           /\ targetBlock(bs, b, "custom_block") # 0
           /\ isProcedureBlock(bs, targetBlock(bs, b, "custom_block"))
           /\ getProcCode(bs, targetBlock(bs, b, "custom_block")) = procCode}
  IN  IF found = {} THEN 0 ELSE Min(found)

getPrototypeBlock(bs, procCode) ==
  LET defineBlock == getDefineBlock(bs, procCode)
  IN  IF defineBlock # 0 THEN targetBlock(bs, defineBlock, "custom_block")
      ELSE 0

\* fireIfChanged without the comparison: an event for every block.
fireAlways(w1, caller, oldMutation) ==
  IF w1.thrown THEN w1 ELSE fire(w1, "change", caller)

\* The comparison of the serialised mutations around domToMutation; w1 is
\* the world domToMutation left.
fireIfChanged(w1, caller, oldMutation) ==
  IF w1.thrown THEN w1
  ELSE IF oldMutation # mutationToDom(w1.blocks, caller)
  THEN fire(w1, "change", caller)
  ELSE w1

\* callers.forEach: an exception thrown by domToMutation leaves the loop and
\* the function.
RECURSIVE mutateEach(_, _, _, _)
mutateEach(w, callers, k, mutation) ==
  IF w.thrown \/ k > Len(callers) THEN w
  ELSE mutateEach(
         fireIfChanged(domToMutation(w, callers[k], mutation), callers[k],
                       mutationToDom(w.blocks, callers[k])),
         callers, k + 1, mutation)

\* closeGroup without the setGroup(false).
closeGroupNever(w1) == w1

\* Blockly.Events.setGroup(false) at the end, not reached by an exception.
closeGroup(w1) == IF w1.thrown THEN w1 ELSE setGroup(w1, FALSE)

mutateCallersAndPrototype(w, name, mutation) ==
  IF ~(getDefineBlock(w.blocks, name) # 0
       /\ getPrototypeBlock(w.blocks, name) # 0)
  THEN [w EXCEPT !.alert = "No define block on workspace"]
  ELSE closeGroup(
         mutateEach(setGroup(w, TRUE),
                    Append(getCallers(w.blocks, name,
                                      getDefineBlock(w.blocks, name), TRUE),
                           getPrototypeBlock(w.blocks, name)),
                    1, mutation))

\* editProcedureCallback: the prototype block the editor is opened on; the
\* world carries the alert or the TypeError of reading mutationToDom of
\* undefined.
editProcedureCallback(w, block) ==
  LET bs == w.blocks
      innerBlock == targetBlock(bs, block, "custom_block")
  IN  IF bs[block].type = PROCEDURES_DEFINITION_BLOCK_TYPE
      THEN IF innerBlock = 0
              \/ bs[innerBlock].type # PROCEDURES_PROTOTYPE_BLOCK_TYPE
           THEN [w |-> [w EXCEPT !.alert = "Bad inner block"], prototypeBlock |-> 0]
           ELSE [w |-> w, prototypeBlock |-> innerBlock]
      ELSE IF bs[block].type = PROCEDURES_CALL_BLOCK_TYPE
              /\ isProcedureBlock(bs, block)
      THEN LET prototypeBlock == getPrototypeBlock(bs, getProcCode(bs, block))
           IN  IF prototypeBlock = 0
               THEN [w |-> [w EXCEPT !.thrown = TRUE], prototypeBlock |-> 0]
               ELSE [w |-> w, prototypeBlock |-> prototypeBlock]
      ELSE [w |-> w, prototypeBlock |-> block]

\* Blockly.BlockSvg.prototype.checkAndDelete: one event group around a
\* dispose that heals the stack, so the blocks below stay on the workspace.
blockSvgCheckAndDelete(w, b) ==
  LET w1 == setGroup(w, TRUE)
      below == targetBlock(w1.blocks, b, "NEXT")
      w2 == IF below # 0 THEN disconnect(w1, below) ELSE w1
  IN  setGroup(dispose(w2, b), FALSE)

\* deleteProcedureDefCallback that counts the recursive calls too.
deleteProcedureDefCallbackCountsRecursive(w, procCode, definitionRoot) ==
  IF Len(getCallers(w.blocks, procCode, definitionRoot, TRUE)) > 0
  THEN [w |-> w, didDelete |-> FALSE]
  ELSE [w |-> blockSvgCheckAndDelete(w, definitionRoot), didDelete |-> TRUE]

\* Returns the world and whether the definition was deleted.
deleteProcedureDefCallback(w, procCode, definitionRoot) ==
  LET callers == getCallers(w.blocks, procCode, definitionRoot, FALSE)
  IN  IF Len(callers) > 0 THEN [w |-> w, didDelete |-> FALSE]
      ELSE [w |-> blockSvgCheckAndDelete(w, definitionRoot),
            didDelete |-> TRUE]

\* checkAndDelete of the procedure_def_contextmenu mixin
\* (src/blocks/vertical_extensions.ts).
checkAndDelete(w, this) ==
  LET proto == targetBlock(w.blocks, this, "custom_block")
  IN  IF proto # 0
      THEN LET r == deleteProcedureDefCallback(w, getProcCode(w.blocks, proto),
                                               this)
           IN  IF ~r.didDelete THEN [r.w EXCEPT !.alert = "PROCEDURE_USED"]
               ELSE r.w
      ELSE w

----------------------------------------------------------------------------
(* src/scratch_dragger.ts: one ScratchDragger per drag gesture.            *)
\* A dragger that reports the pointer's status on every move.
updateOutOfBoundsState_always(w, draggable, recorded, inside) ==
  [w |-> fireEvent(w, "dragOutside", draggable, ~inside),
   draggedOutOfBounds |-> ~inside]

\* updateOutOfBoundsState: returns the world and the recorded status.
updateOutOfBoundsState(w, draggable, recorded, inside) ==
  LET outOfBounds == ~inside
  IN  IF outOfBounds # recorded
      THEN [w |-> fireEvent(w, "dragOutside", draggable, outOfBounds),
            draggedOutOfBounds |-> outOfBounds]
      ELSE [w |-> w, draggedOutOfBounds |-> recorded]

\* Blockly.dragging.Dragger.onDragEnd: a draggable dropped on the delete
\* area is disposed with everything below it; the event group is closed.
superOnDragEnd(w, draggable, wouldDelete) ==
  setGroup(IF wouldDelete THEN dispose(w, draggable) ELSE w, FALSE)

\* ScratchDragger.onDragEnd: the world, the recorded status and whether the
\* handler returned before removing the "boundless" class.
onDragEnd(w, draggable, recorded, inside, wouldDelete) ==
  LET bs == w.blocks
      prototype == targetBlock(bs, draggable, "custom_block")
      hasCaller ==
        /\ prototype # 0
        /\ isProcedureBlock(bs, prototype)
        /\ Len(getCallers(bs, getProcCode(bs, prototype), draggable, FALSE)) > 0
  IN  IF /\ bs[draggable].type = PROCEDURES_DEFINITION_BLOCK_TYPE
         /\ wouldDelete
         /\ hasCaller
      THEN [w |-> [w EXCEPT !.alert = "PROCEDURE_USED"],
            draggedOutOfBounds |-> recorded, returnedEarly |-> TRUE]
      ELSE LET u == updateOutOfBoundsState(
                      superOnDragEnd(w, draggable, wouldDelete),
                      draggable, recorded, inside)
           IN  [w |-> fireEvent(u.w, "endDrag", draggable,
                                u.draggedOutOfBounds),
                draggedOutOfBounds |-> u.draggedOutOfBounds,
                returnedEarly |-> FALSE]

----------------------------------------------------------------------------
(* The workspace and the mutations the editor can deliver.                 *)

SigF     == <<"f", " ", "%", "s", " ", "%", "b">>
SigFrev  == <<"f", " ", "%", "b", " ", "%", "s">>
SigF1s   == <<"f", " ", "%", "s">>
SigF1b   == <<"f", " ", "%", "b">>
SigF3    == <<"f", " ", "%", "s", " ", "%", "b", " ", "%", "n">>
SigFbad  == <<"f", " ", "%", "s", " ", "%", "%", "b">>
SigG     == <<"g", " ", "%", "s">>

\* What the declaration editor hands to the callback: mutationToDom(true)
\* of the declaration block.
Mutation(procCode, ids, names, defaults, warp) ==
  [has |-> {"proccode", "argumentids", "argumentnames", "argumentdefaults",
            "warp", "generateshadows"},
   proccode |-> procCode, argumentids |-> ids, argumentnames |-> names,
   argumentdefaults |-> defaults, warp |-> warp, generateshadows |-> "true"]

Mutations ==
  { Mutation(SigF,    <<"a1", "a2">>,       <<"x", "y">>,      <<"", "false">>,     "false"),
    Mutation(SigF,    <<"a1", "a2">>,       <<"p", "q">>,      <<"", "false">>,     "false"),
    Mutation(SigF,    <<"a1", "a2">>,       <<"y", "x">>,      <<"", "false">>,     "false"),
    Mutation(SigF,    <<"a1", "a2">>,       <<"x", "y">>,      <<"", "false">>,     "true"),
    Mutation(SigFrev, <<"a2", "a1">>,       <<"y", "x">>,      <<"false", "">>,     "false"),
    Mutation(SigF,    <<"a2", "a1">>,       <<"y", "x">>,      <<"", "false">>,     "false"),
    Mutation(SigF1s,  <<"a1">>,             <<"x">>,           <<"">>,              "false"),
    Mutation(SigF1b,  <<"a2">>,             <<"y">>,           <<"false">>,         "false"),
    Mutation(SigF3,   <<"a1", "a2", "a3">>, <<"x", "y", "z">>, <<"", "false", "">>, "false"),
    Mutation(SigFbad, <<"a1", "a2">>,       <<"x", "y">>,      <<"", "false">>,     "false") }

NoMutation == Mutation(<<>>, <<>>, <<>>, <<>>, "")

EmptyWorld(bs) ==
  [blocks |-> bs, events |-> <<>>, group |-> 0, nextGroup |-> 1,
   thrown |-> FALSE, alert |-> "", uid |-> 1, pending |-> <<>>,
   variableMap |-> <<>>, postRenderCallbacks |-> <<>>, registered |-> 0,
   runs |-> <<>>, calls |-> <<>>]

\* The inputs createAllInputs_ gives a block that carries procCode and ids.
InputsOf(procCode, ids) ==
  createAllInputs_(
    EmptyWorld(<<[NewBlock(PROCEDURES_CALL_BLOCK_TYPE) EXCEPT
                    !.procCode = procCode, !.argumentIds = ids]>>),
    1, <<>>).w.blocks[1].inputs

Child(type, shadow, value, parent, slot) ==
  [NewBlock(type) EXCEPT !.shadow = shadow, !.value = value,
                         !.parent = parent, !.slot = slot]

Procedure(type, shadow, parent, slot, procCode, ids, names, defaults, gen) ==
  [NewBlock(type) EXCEPT
     !.shadow = shadow, !.parent = parent, !.slot = slot,
     !.procCode = procCode, !.argumentIds = ids, !.displayNames = names,
     !.argumentDefaults = defaults, !.generateShadows = gen,
     !.inputs = InputsOf(procCode, ids)]

\* Two procedures: f (blocks 1..7) with a recursive call in its body and a
\* call on the workspace (8..10), and g (11..15) whose body calls g or f.
\* names1: the display names of f's arguments; arg1: the block in the first
\* socket of the workspace call; c3: the signature the call in g's body has.
InitialBlocks(names1, arg1, c3) ==
  << NewBlock(PROCEDURES_DEFINITION_BLOCK_TYPE),
     Procedure(PROCEDURES_PROTOTYPE_BLOCK_TYPE, TRUE, 1, "custom_block",
               SigF, <<"a1", "a2">>, names1, <<"", "false">>, FALSE),
     Child("argument_reporter_string_number", TRUE, names1[1], 2, "a1"),
     Child("argument_reporter_boolean", TRUE, names1[2], 2, "a2"),
     Procedure(PROCEDURES_CALL_BLOCK_TYPE, FALSE, 1, "NEXT",
               SigF, <<"a1", "a2">>, <<>>, <<>>, FALSE),
     Child("argument_reporter_string_number", FALSE, names1[1], 5, "a1"),
     Child("argument_reporter_boolean", FALSE, names1[2], 5, "a2"),
     Procedure(PROCEDURES_CALL_BLOCK_TYPE, FALSE, 0, "",
               SigF, <<"a1", "a2">>, <<>>, <<>>, arg1 = "text"),
     Child(arg1, arg1 = "text", "", 8, "a1"),
     Child("sensing_mousedown", FALSE, "", 8, "a2"),
     NewBlock(PROCEDURES_DEFINITION_BLOCK_TYPE),
     Procedure(PROCEDURES_PROTOTYPE_BLOCK_TYPE, TRUE, 11, "custom_block",
               SigG, <<"b1">>, <<"x">>, <<"">>, FALSE),
     Child("argument_reporter_string_number", TRUE, "x", 12, "b1"),
     Procedure(PROCEDURES_CALL_BLOCK_TYPE, FALSE, 11, "NEXT",
               c3, IF c3 = SigF THEN <<"a1", "a2">> ELSE <<"b1">>,
               <<>>, <<>>, FALSE),
     Child("argument_reporter_string_number", FALSE, "x", 14,
           IF c3 = SigF THEN "a1" ELSE "b1") >>

----------------------------------------------------------------------------
(* src/procedures.ts: creating a procedure.                                *)

\* Blockly.Xml.domToBlock of a procedures_definition holding a shadow
\* prototype with the mutation: the blocks are built with events disabled,
\* then one create event is fired for the definition.
domToBlock(w, mutation) ==
  LET d == Len(w.blocks) + 1
      built == definitionDomToMutation(
                 [w EXCEPT !.blocks =
                    @ \o <<NewBlock(PROCEDURES_DEFINITION_BLOCK_TYPE),
                           [NewBlock(PROCEDURES_PROTOTYPE_BLOCK_TYPE) EXCEPT
                              !.shadow = TRUE, !.parent = d,
                              !.slot = "custom_block"]>>],
                 d + 1, mutation)
  IN  fire([w EXCEPT !.blocks = built.blocks, !.thrown = built.thrown],
           "create", d)

\* The callback createProcedureCallbackFactory returns, up to the promise:
\* the deferred step is queued for the block; group records, for the
\* properties, the group the callback opened.
createProcedureCallback(w, mutation) ==
  LET g == setGroup(w, TRUE)
      c == domToBlock(g, mutation)
  IN  IF c.thrown THEN c
      ELSE [c EXCEPT !.pending = Append(@, [block |-> Len(w.blocks) + 1,
                                            group |-> g.group])]

\* The function passed to finishQueuedRenders().then for the first queued
\* block: moveBy fires a move event, then the group is cleared.
positionBlock(w) ==
  setGroup(fire([w EXCEPT !.pending = Tail(@)], "move", w.pending[1].block),
           FALSE)

----------------------------------------------------------------------------
(* State.                                                                  *)

VARIABLES
  blocks,             \* the workspace: every block created so far
  events,             \* the events fired by the last user action
  group,              \* Blockly.Events.getGroup(), 0 for ""
  nextGroup,          \* the next id setGroup(true) draws
  nextUid,            \* how many ids Blockly.utils.idGenerator.genUid gave
  pending,            \* the callbacks waiting for finishQueuedRenders
  variableMap,        \* workspace.getVariableMap(): the variables, in order
  postRenderCallbacks, \* ScratchContinuousToolbox.postRenderCallbacks
  registered,         \* how many callbacks runAfterRerender has taken
  runs,               \* the callbacks forceRerender has invoked, in order
  calls,              \* the arguments opt_callback got in the last action
  pastGroups,         \* the groups of the events of earlier user actions
  commitGroups,       \* the groups of the events of earlier completed edits
  thrown,             \* the last user action ended in an uncaught exception
  alert,              \* the message the last user action showed, "" if none
  editor,             \* the prototype block the open editor's callback holds
  edits,              \* how often the editor was opened
  draggable,          \* the block being dragged, 0 when no drag is on
  draggedOutOfBounds, \* ScratchDragger.draggedOutOfBounds
  boundless,          \* the workspace carries the "boundless" class
  prevBlocks,         \* the workspace before the last user action
  lastOp              \* the last user action and its arguments

vars == <<blocks, events, group, nextGroup, nextUid, pending, variableMap,
          postRenderCallbacks, registered, runs, calls, pastGroups,
          commitGroups, thrown, alert, editor,
          edits, draggable, draggedOutOfBounds, boundless, prevBlocks, lastOp>>

Op(op, block, name, mutation, flag) ==
  [op |-> op, block |-> block, name |-> name, mutation |-> mutation,
   flag |-> flag]

Init ==
  /\ \E names1 \in {<<"x", "y">>, <<"x", "x">>},
        arg1 \in {"text", "sensing_mousex", "sensing_mousedown"},
        c3 \in {SigF, SigG} :
       blocks = InitialBlocks(names1, arg1, c3)
  /\ events = <<>> /\ group = 0 /\ nextGroup = 1 /\ nextUid = 1
  /\ pending = <<>>
  /\ variableMap = <<>> /\ postRenderCallbacks = <<>> /\ registered = 0
  /\ runs = <<>> /\ calls = <<>>
  /\ pastGroups = {}
  /\ commitGroups = {}
  /\ thrown = FALSE /\ alert = "" /\ editor = 0 /\ edits = 0
  /\ draggable = 0 /\ draggedOutOfBounds = FALSE /\ boundless = FALSE
  /\ prevBlocks = blocks
  /\ lastOp = Op("init", 0, <<>>, NoMutation, FALSE)

\* The world a user action starts in.
World ==
  [blocks |-> blocks, events |-> <<>>, group |-> group,
   nextGroup |-> nextGroup, thrown |-> FALSE, alert |-> "", uid |-> nextUid,
   pending |-> pending, variableMap |-> variableMap,
   postRenderCallbacks |-> postRenderCallbacks, registered |-> registered,
   runs |-> runs, calls |-> <<>>]

\* The state a user action leaves.
Leave(w) ==
  /\ blocks' = w.blocks /\ events' = w.events /\ group' = w.group
  /\ nextGroup' = w.nextGroup /\ thrown' = w.thrown /\ alert' = w.alert
  /\ nextUid' = w.uid /\ pending' = w.pending
  /\ variableMap' = w.variableMap
  /\ postRenderCallbacks' = w.postRenderCallbacks
  /\ registered' = w.registered /\ runs' = w.runs /\ calls' = w.calls
  /\ pastGroups' = pastGroups
                     \cup ({events[i].group : i \in 1..Len(events)} \ {0})
  /\ commitGroups' = commitGroups
                       \cup (IF lastOp.op = "commit" /\ ~thrown
                             THEN {events[i].group : i \in 1..Len(events)} \ {0}
                             ELSE {})
  /\ prevBlocks' = blocks

\* The "edit" context menu option on a definition, call or prototype block.
EditOpen(b) ==
  /\ draggable = 0 /\ editor = 0 /\ edits < MaxEdits
  /\ blocks[b].alive
  /\ blocks[b].type \in {PROCEDURES_DEFINITION_BLOCK_TYPE,
                         PROCEDURES_CALL_BLOCK_TYPE,
                         PROCEDURES_PROTOTYPE_BLOCK_TYPE}
  /\ LET r == editProcedureCallback(World, b)
     IN  /\ Leave(r.w)
         /\ editor' = r.prototypeBlock
  /\ edits' = edits + 1
  /\ lastOp' = Op("open", b,
                  IF blocks[b].type = PROCEDURES_DEFINITION_BLOCK_TYPE
                  THEN getProcCode(blocks,
                                   targetBlock(blocks, b, "custom_block"))
                  ELSE getProcCode(blocks, b),
                  NoMutation, FALSE)
  /\ UNCHANGED <<draggable, draggedOutOfBounds, boundless>>

\* The editor calls back with the edited mutation
\* (editProcedureCallbackFactory).
EditCommit(m) ==
  /\ draggable = 0 /\ editor # 0
  /\ Leave(IF isProcedureBlock(blocks, editor)
           THEN mutateCallersAndPrototype(World, getProcCode(blocks, editor), m)
           ELSE World)
  /\ editor' = 0
  /\ lastOp' = Op("commit", editor, getProcCode(blocks, editor), m, FALSE)
  /\ UNCHANGED <<edits, draggable, draggedOutOfBounds, boundless>>

\* The editor calls back without a mutation.
EditCancel ==
  /\ draggable = 0 /\ editor # 0
  /\ Leave(World)
  /\ editor' = 0
  /\ lastOp' = Op("cancel", editor, <<>>, NoMutation, FALSE)
  /\ UNCHANGED <<edits, draggable, draggedOutOfBounds, boundless>>

\* "Delete" in the context menu of a definition block.
CheckAndDelete(d) ==
  /\ draggable = 0
  /\ blocks[d].alive /\ blocks[d].type = PROCEDURES_DEFINITION_BLOCK_TYPE
  /\ Leave(checkAndDelete(World, d))
  /\ lastOp' = Op("delete", d,
                  getProcCode(blocks, targetBlock(blocks, d, "custom_block")),
                  NoMutation, FALSE)
  /\ UNCHANGED <<editor, edits, draggable, draggedOutOfBounds, boundless>>

\* ScratchDragger.onDragStart on a definition block of the workspace.
DragStart(d) ==
  /\ draggable = 0
  /\ blocks[d].alive /\ blocks[d].type = PROCEDURES_DEFINITION_BLOCK_TYPE
  /\ Leave(World)
  /\ draggable' = d /\ draggedOutOfBounds' = FALSE /\ boundless' = TRUE
  /\ lastOp' = Op("dragStart", d, <<>>, NoMutation, FALSE)
  /\ UNCHANGED <<editor, edits>>

\* ScratchDragger.onDrag with the pointer inside or outside the workspace.
Drag(inside) ==
  /\ draggable # 0
  /\ LET u == updateOutOfBoundsState(World, draggable, draggedOutOfBounds,
                                     inside)
     IN  /\ Leave(u.w)
         /\ draggedOutOfBounds' = u.draggedOutOfBounds
  /\ lastOp' = Op("drag", draggable, <<>>, NoMutation, inside)
  /\ UNCHANGED <<editor, edits, draggable, boundless>>

\* ScratchDragger.onDragEnd; wouldDelete: the pointer is over the delete area.
DragEnd(inside, wouldDelete) ==
  /\ draggable # 0
  /\ LET r == onDragEnd(World, draggable, draggedOutOfBounds, inside,
                        wouldDelete)
     IN  /\ Leave(r.w)
         /\ draggedOutOfBounds' = r.draggedOutOfBounds
         /\ boundless' = IF r.returnedEarly THEN boundless ELSE FALSE
  /\ draggable' = 0
  /\ lastOp' = Op("dragEnd", draggable,
                  getProcCode(blocks,
                              targetBlock(blocks, draggable, "custom_block")),
                  NoMutation, wouldDelete)
  /\ UNCHANGED <<editor, edits>>

Next ==
  \/ \E b \in Ids(blocks) : EditOpen(b)
  \/ \E m \in Mutations : EditCommit(m)
  \/ EditCancel
  \/ \E d \in Ids(blocks) : CheckAndDelete(d)
  \/ \E d \in Ids(blocks) : DragStart(d)
  \/ \E inside \in BOOLEAN : Drag(inside)
  \/ \E inside \in BOOLEAN, wouldDelete \in BOOLEAN : DragEnd(inside, wouldDelete)

Spec == Init /\ [][Next]_vars

----------------------------------------------------------------------------
(* The workspace after procedure g was edited to the signature of f: two   *)
(* definitions carry the same procCode.                                    *)

InitTwins ==
  /\ \E arg1 \in {"text", "sensing_mousex", "sensing_mousedown"},
        c3 \in {SigF, SigG} :
       blocks = mutateCallersAndPrototype(
                  EmptyWorld(InitialBlocks(<<"x", "y">>, arg1, c3)), SigG,
                  Mutation(SigF, <<"b1", "b2">>, <<"x", "y">>,
                           <<"", "false">>, "false")).blocks
  /\ events = <<>> /\ group = 0 /\ nextGroup = 2 /\ nextUid = 1
  /\ pending = <<>>
  /\ variableMap = <<>> /\ postRenderCallbacks = <<>> /\ registered = 0
  /\ runs = <<>> /\ calls = <<>>
  /\ pastGroups = {1}
  /\ commitGroups = {1}
  /\ thrown = FALSE /\ alert = "" /\ editor = 0 /\ edits = 0
  /\ draggable = 0 /\ draggedOutOfBounds = FALSE /\ boundless = FALSE
  /\ prevBlocks = blocks
  /\ lastOp = Op("init", 0, <<>>, NoMutation, FALSE)

TwinSpec == InitTwins /\ [][Next]_vars

----------------------------------------------------------------------------
(* Creating a procedure while the editor is used: the callback of the      *)
(* "make a block" dialog, its deferred step, and the edit actions.         *)

\* The dialog calls back with the mutation of the new procedure.
CreateProcedure(m) ==
  /\ draggable = 0 /\ pending = <<>>
  /\ \A b \in Ids(blocks) : blocks[b].procCode # m.proccode
  /\ Leave(createProcedureCallback(World, m))
  /\ lastOp' = Op("create", Len(blocks) + 1, m.proccode, m, FALSE)
  /\ UNCHANGED <<editor, edits, draggable, draggedOutOfBounds, boundless>>

\* The render queue is flushed and the promise's callback runs; lastOp.name
\* holds the group the creation had opened.
FinishQueuedRenders ==
  /\ pending # <<>>
  /\ Leave(positionBlock(World))
  /\ lastOp' = Op("position", pending[1].block, <<pending[1].group>>,
                  NoMutation, FALSE)
  /\ UNCHANGED <<editor, edits, draggable, draggedOutOfBounds, boundless>>

NextCreate ==
  \/ CreateProcedure(Mutation(<<"h">>, <<>>, <<>>, <<>>, "false"))
  \/ FinishQueuedRenders
  \/ \E b \in Ids(blocks) : EditOpen(b)
  \/ \E m \in Mutations : EditCommit(m)
  \/ EditCancel

CreateSpec == Init /\ [][NextCreate]_vars

----------------------------------------------------------------------------
(* Loading a persisted mutation into a fresh block: every signature of at  *)
(* most MaxLen characters, on a call, a prototype and a declaration.       *)

Alphabet == {"a", " ", "%", "\\", "s", "b", "n"}

Signatures == UNION {[1..k -> Alphabet] : k \in 0..MaxLen}

\* The element mutationToDom wrote for a block with two arguments.
Persisted(type, procCode, warp, gen) ==
  [has |-> IF type = PROCEDURES_CALL_BLOCK_TYPE
           THEN {"proccode", "argumentids", "warp"}
                \cup (IF gen = "true" THEN {"generateshadows"} ELSE {})
           ELSE {"proccode", "argumentids", "argumentnames",
                 "argumentdefaults", "warp"},
   proccode |-> procCode,
   argumentids |-> <<"a1", "a2">>,
   argumentnames |-> IF type = PROCEDURES_CALL_BLOCK_TYPE
                     THEN <<>> ELSE <<"x", "y">>,
   argumentdefaults |-> IF type = PROCEDURES_CALL_BLOCK_TYPE
                        THEN <<>> ELSE <<"", "false">>,
   warp |-> warp,
   generateshadows |-> gen]

InitLoad ==
  /\ \E type \in {PROCEDURES_CALL_BLOCK_TYPE,
                  PROCEDURES_PROTOTYPE_BLOCK_TYPE,
                  PROCEDURES_DECLARATION_BLOCK_TYPE} :
       blocks = <<NewBlock(type)>>
  /\ events = <<>> /\ group = 0 /\ nextGroup = 1 /\ nextUid = 1
  /\ pending = <<>>
  /\ variableMap = <<>> /\ postRenderCallbacks = <<>> /\ registered = 0
  /\ runs = <<>> /\ calls = <<>>
  /\ pastGroups = {}
  /\ commitGroups = {}
  /\ thrown = FALSE /\ alert = "" /\ editor = 0 /\ edits = 0
  /\ draggable = 0 /\ draggedOutOfBounds = FALSE /\ boundless = FALSE
  /\ prevBlocks = blocks
  /\ lastOp = Op("init", 0, <<>>, NoMutation, FALSE)

\* block.domToMutation(m) on the fresh block.
LoadMutation(m) ==
  /\ lastOp.op = "init"
  /\ Leave(domToMutation(World, 1, m))
  /\ lastOp' = Op("load", 1, m.proccode, m, FALSE)
  /\ UNCHANGED <<editor, edits, draggable, draggedOutOfBounds, boundless>>

\* The declaration's onChangeFn after the load; lastOp keeps the loaded
\* signature.
OnChange ==
  /\ lastOp.op = "load" /\ ~thrown
  /\ blocks[1].type = PROCEDURES_DECLARATION_BLOCK_TYPE
  /\ Leave(updateDeclarationProcCode_(World, 1))
  /\ lastOp' = [lastOp EXCEPT !.op = "change"]
  /\ UNCHANGED <<editor, edits, draggable, draggedOutOfBounds, boundless>>

\* The loaded block is saved and the element read back into it.
SaveAndLoad ==
  /\ lastOp.op = "load" /\ ~thrown
  /\ Leave(domToMutation(World, 1, mutationToDom(blocks, 1)))
  /\ lastOp' = [lastOp EXCEPT !.op = "reload",
                              !.mutation = mutationToDom(blocks, 1)]
  /\ UNCHANGED <<editor, edits, draggable, draggedOutOfBounds, boundless>>

NextLoad ==
  \/ /\ lastOp.op = "init"
     /\ \E procCode \in Signatures, warp \in {"true", "false"},
            gen \in IF blocks[1].type = PROCEDURES_CALL_BLOCK_TYPE
                    THEN {"true", ""} ELSE {""} :
          LoadMutation(Persisted(blocks[1].type, procCode, warp, gen))
  \/ OnChange
  \/ SaveAndLoad

LoadSpec == InitLoad /\ [][NextLoad]_vars

----------------------------------------------------------------------------
(* The procedure editor: the declaration block after it loaded the         *)
(* mutation of the procedure being edited, and the editor's buttons.       *)

SigEsc == <<"f", " ", "\\", "%", "s", " ", "%", "b">>

DeclarationMutations ==
  { Mutation(SigF,   <<"a1", "a2">>, <<"x", "y">>, <<"", "false">>, "false"),
    Mutation(SigEsc, <<"a2">>,       <<"y">>,      <<"false">>,     "false") }

InitDeclaration ==
  /\ \E m \in DeclarationMutations :
       blocks = domToMutation(
                  EmptyWorld(<<NewBlock(PROCEDURES_DECLARATION_BLOCK_TYPE)>>),
                  1, m).blocks
  /\ events = <<>> /\ group = 0 /\ nextGroup = 1 /\ nextUid = 1
  /\ pending = <<>>
  /\ variableMap = <<>> /\ postRenderCallbacks = <<>> /\ registered = 0
  /\ runs = <<>> /\ calls = <<>>
  /\ pastGroups = {}
  /\ commitGroups = {}
  /\ thrown = FALSE /\ alert = "" /\ editor = 0 /\ edits = 0
  /\ draggable = 0 /\ draggedOutOfBounds = FALSE /\ boundless = FALSE
  /\ prevBlocks = blocks
  /\ lastOp = Op("init", 0, <<>>, NoMutation, FALSE)

\* One press of a button of the editor; edits counts them.
EditorOp(name, n, w) ==
  /\ edits < MaxOps /\ ~thrown
  /\ Leave(w)
  /\ edits' = edits + 1
  /\ lastOp' = Op(name, n, blocks[1].procCode, NoMutation, FALSE)
  /\ UNCHANGED <<editor, draggable, draggedOutOfBounds, boundless>>

AddLabel == EditorOp("addLabel", 0, addLabelExternal(World, 1))

AddBoolean == EditorOp("addBoolean", 0, addBooleanExternal(World, 1))

AddStringNumber ==
  EditorOp("addStringNumber", 0, addStringNumberExternal(World, 1))

\* The remove button of the n-th input's field.
RemoveField(n) ==
  /\ blocks[1].inputs[n].type = "value"
       => targetBlock(blocks, 1, blocks[1].inputs[n].name) # 0
  /\ EditorOp("removeField", n, removeFieldCallback(World, 1, n))

NextDeclaration ==
  \/ AddLabel
  \/ AddBoolean
  \/ AddStringNumber
  \/ \E n \in 1..Len(blocks[1].inputs) : RemoveField(n)

DeclarationSpec == InitDeclaration /\ [][NextDeclaration]_vars

----------------------------------------------------------------------------
(* The procedure editor with its label fields open to typing.              *)

LabelTexts == { <<"g">>, <<" ">>, <<>> }

\* The text field of the n-th input, a label, takes the text typed; the
\* declaration's onChangeFn follows.
LabelEdit(n, text) ==
  /\ blocks[1].inputs[n].type = "dummy"
  /\ blocks[1].inputs[n].text # text
  /\ EditorOp("labelEdit", n,
              updateDeclarationProcCode_(
                [World EXCEPT !.blocks[1].inputs[n].text = text], 1))

NextLabel ==
  \/ \E n \in 1..Len(blocks[1].inputs), text \in LabelTexts : LabelEdit(n, text)
  \/ \E n \in 1..Len(blocks[1].inputs) : RemoveField(n)

LabelSpec == InitDeclaration /\ [][NextLabel]_vars

----------------------------------------------------------------------------
(* src/scratch_continuous_toolbox.ts                                       *)

MaxVariables == 2
MaxCallbacks == 3

\* ScratchContinuousToolbox.runAfterRerender.
runAfterRerender(w, kind) ==
  [w EXCEPT !.postRenderCallbacks =
               Append(@, [id |-> w.registered + 1, kind |-> kind]),
            !.registered = @ + 1]

\* callback(): a "chain" callback registers another callback while it runs.
callback(w, c) ==
  IF c.kind = "chain"
  THEN runAfterRerender([w EXCEPT !.runs = Append(@, c.id)], "plain")
  ELSE [w EXCEPT !.runs = Append(@, c.id)]

\* A toolbox that runs the first callback of the queue only.
forceRerender_first(w) ==
  IF w.postRenderCallbacks = <<>> THEN w
  ELSE callback([w EXCEPT !.postRenderCallbacks = Tail(@)],
                Head(w.postRenderCallbacks))

\* The loop of forceRerender: shift the queue and call, until it is empty.
RECURSIVE shiftCallbacks(_)
shiftCallbacks(w) ==
  IF w.postRenderCallbacks = <<>> THEN w
  ELSE shiftCallbacks(callback([w EXCEPT !.postRenderCallbacks = Tail(@)],
                               Head(w.postRenderCallbacks)))

\* ScratchContinuousToolbox.forceRerender.
forceRerender(w) == shiftCallbacks(w)

----------------------------------------------------------------------------
(* src/variables.ts                                                        *)

BROADCAST_MESSAGE_VARIABLE_TYPE == "broadcast_msg"
LIST_VARIABLE_TYPE == "list"

\* The prefix of a cloud variable's name: the cloud character and a blank.
CLOUD_PREFIX == <<"cloud", " ">>

\* workspace.getVariable(name, type): the id of the variable, "null" if none.
getVariable(w, name, type) ==
  LET found == { i \in 1..Len(w.variableMap) :
                   /\ w.variableMap[i].name = name
                   /\ w.variableMap[i].type = type }
  IN  IF found = {} THEN "null" ELSE w.variableMap[Min(found)].id

opt_callback(w, id) == [w EXCEPT !.calls = Append(@, id)]

\* The validators return the world and the validated text, <<>> for null.
validateBroadcastMessageName(w, name) ==
  IF name = <<>> THEN [w |-> w, text |-> <<>>]
  ELSE IF getVariable(w, name, BROADCAST_MESSAGE_VARIABLE_TYPE) # "null"
  THEN [w |-> opt_callback(w, getVariable(w, name,
                                          BROADCAST_MESSAGE_VARIABLE_TYPE)),
        text |-> <<>>]
  ELSE [w |-> w, text |-> name]

validateScalarVarOrListName(w, name, additionalVars, isCloud, type, errorMsg) ==
  LET trimmed == trim(name)
      named == IF isCloud THEN CLOUD_PREFIX \o trimmed ELSE trimmed
  IN  IF trimmed = <<>> THEN [w |-> w, text |-> <<>>]
      ELSE IF \/ getVariable(w, named, type) # "null"
              \/ \E i \in 1..Len(additionalVars) : additionalVars[i] = named
      THEN [w |-> [w EXCEPT !.alert = errorMsg], text |-> <<>>]
      ELSE [w |-> w, text |-> named]

nameValidator(w, type, text, additionalVars, isCloud) ==
  IF type = BROADCAST_MESSAGE_VARIABLE_TYPE
  THEN validateBroadcastMessageName(w, text)
  ELSE IF type = LIST_VARIABLE_TYPE
  THEN validateScalarVarOrListName(w, text, additionalVars, FALSE, type,
                                   "LIST_ALREADY_EXISTS")
  ELSE validateScalarVarOrListName(w, text, additionalVars, isCloud, type,
                                   "VARIABLE_ALREADY_EXISTS")

\* The function createVariable hands to prompt(), called with the user's
\* answer.
createVariable(w, type, text, additionalVars, isLocal, isCloud) ==
  LET validated == nameValidator(w, type, text,
                                 IF isLocal THEN <<>> ELSE additionalVars,
                                 isCloud)
      v == validated.w
      variable == [name |-> validated.text, type |-> type, id |-> genUid(v),
                   isLocal |-> isLocal, isCloud |-> isCloud]
  IN  IF validated.text # <<>>
      THEN opt_callback(
             runAfterRerender(
               fire([v EXCEPT !.variableMap = Append(@, variable),
                              !.uid = @ + 1],
                    "var_create", 0),
               "plain"),
             variable.id)
      ELSE opt_callback(v, "null")

----------------------------------------------------------------------------
(* The variable prompts and the toolbox.                                   *)

InitVariables ==
  /\ blocks = <<>>
  /\ events = <<>> /\ group = 0 /\ nextGroup = 1 /\ nextUid = 1
  /\ pending = <<>>
  /\ variableMap = <<>> /\ postRenderCallbacks = <<>> /\ registered = 0
  /\ runs = <<>> /\ calls = <<>>
  /\ pastGroups = {}
  /\ commitGroups = {}
  /\ thrown = FALSE /\ alert = "" /\ editor = 0 /\ edits = 0
  /\ draggable = 0 /\ draggedOutOfBounds = FALSE /\ boundless = FALSE
  /\ prevBlocks = blocks
  /\ lastOp = Op("init", 0, <<>>, NoMutation, FALSE)

VariableTypes == {"", LIST_VARIABLE_TYPE, BROADCAST_MESSAGE_VARIABLE_TYPE}

VariableNames == { <<>>, <<"a">>, <<" ", "a">>, <<"b">> }

\* The user answers the prompt of createVariable.
CreateVariable(type, text, additionalVars, isLocal, isCloud) ==
  /\ Len(variableMap) < MaxVariables /\ registered < MaxCallbacks
  /\ Leave(createVariable(World, type, text, additionalVars, isLocal, isCloud))
  /\ lastOp' = Op("createVariable", registered,
                  [type |-> type, text |-> text], NoMutation, isCloud)
  /\ UNCHANGED <<editor, edits, draggable, draggedOutOfBounds, boundless>>

\* The host registers a callback with the toolbox.
RunAfterRerender(kind) ==
  /\ registered < MaxCallbacks
  /\ Leave(runAfterRerender(World, kind))
  /\ lastOp' = Op("runAfterRerender", registered, kind, NoMutation, FALSE)
  /\ UNCHANGED <<editor, edits, draggable, draggedOutOfBounds, boundless>>

ForceRerender ==
  /\ Leave(forceRerender(World))
  /\ lastOp' = Op("forceRerender", registered, <<>>, NoMutation, FALSE)
  /\ UNCHANGED <<editor, edits, draggable, draggedOutOfBounds, boundless>>

NextVariables ==
  \/ \E type \in VariableTypes, text \in VariableNames,
        additionalVars \in {<<>>, << <<"a">> >>},
        isLocal \in BOOLEAN, isCloud \in BOOLEAN :
       CreateVariable(type, text, additionalVars, isLocal, isCloud)
  \/ \E kind \in {"plain", "chain"} : RunAfterRerender(kind)
  \/ ForceRerender

VariablesSpec == InitVariables /\ [][NextVariables]_vars

----------------------------------------------------------------------------
(* Properties.  Each is stated over the state a user action leaves:        *)
(* prevBlocks is the workspace before the action, blocks the one after,    *)
(* events what the action fired and lastOp the action and its arguments.   *)

ArgumentReporterTypes ==
  {"argument_reporter_string_number", "argument_reporter_boolean"}

\* createAllInputs_ runs through procCode without throwing: every component
\* that starts with % names one of the three argument types.
Parses(procCode) ==
  \A i \in 1..Len(procComponents(procCode)) :
     isArgument(procComponents(procCode)[i]) =>
       /\ Len(procComponents(procCode)[i]) >= 2
       /\ procComponents(procCode)[i][2] \in ArgumentType

\* The live procedures_call blocks of workspace bs that carry signature S.
CallsOf(bs, S) ==
  {c \in Ids(bs) : /\ bs[c].alive
                   /\ bs[c].type = PROCEDURES_CALL_BLOCK_TYPE
                   /\ bs[c].procCode = S}

\* The live prototypes with signature S that sit in a top-level definition,
\* and those definitions.
PrototypesOf(bs, S) ==
  {p \in Ids(bs) : /\ bs[p].alive
                   /\ bs[p].type = PROCEDURES_PROTOTYPE_BLOCK_TYPE
                   /\ bs[p].procCode = S
                   /\ bs[p].parent # 0
                   /\ bs[p].slot = "custom_block"
                   /\ bs[bs[p].parent].alive
                   /\ bs[bs[p].parent].parent = 0
                   /\ bs[bs[p].parent].type = PROCEDURES_DEFINITION_BLOCK_TYPE}

DefinitionsOf(bs, S) == {bs[p].parent : p \in PrototypesOf(bs, S)}

\* Signatures are matched as strings: when several definitions carry S, the
\* procedure S names is the first of them on the workspace.  The sets hold
\* at most one block.
DefinitionOf(bs, S) ==
  {d \in DefinitionsOf(bs, S) : \A e \in DefinitionsOf(bs, S) : d <= e}

PrototypeOf(bs, S) ==
  {p \in PrototypesOf(bs, S) : bs[p].parent \in DefinitionOf(bs, S)}

SetOf(seq) == {seq[i] : i \in 1..Len(seq)}

\* The last user action committed an edit of the procedure lastOp.name.
Committed == lastOp.op = "commit"

\* ... and the procedure had a definition and the edit's signature parses:
\* the edit was propagated to the call sites and the prototype.
Propagated ==
  /\ Committed
  /\ DefinitionsOf(prevBlocks, lastOp.name) # {}
  /\ Parses(lastOp.mutation.proccode)

\* The blocks a propagated edit is applied to.
Affected ==
  CallsOf(prevBlocks, lastOp.name) \cup PrototypeOf(prevBlocks, lastOp.name)

Reordered ==
  {b \in CallsOf(prevBlocks, lastOp.name) :
     /\ Len(prevBlocks[b].argumentIds) = Len(lastOp.mutation.argumentids)
     /\ SetOf(prevBlocks[b].argumentIds) = SetOf(lastOp.mutation.argumentids)}

DeleteRequested ==
  \/ lastOp.op = "delete"
  \/ lastOp.op = "dragEnd" /\ lastOp.flag

\* The calls of the definition's procedure outside the definition's stack.
OutsideCalls ==
  CallsOf(prevBlocks, lastOp.name) \ Descendants(prevBlocks, lastOp.block)

\* The definition block, its prototype and the prototype's arguments.
DefinitionSubtree ==
  {lastOp.block}
    \cup UNION {Descendants(prevBlocks, p) :
                  p \in {c \in Children(prevBlocks, lastOp.block) :
                           prevBlocks[c].slot = "custom_block"}}

\* C4: a requested deletion of a procedure definition disposes the
\* definition subtree exactly when no procedures_call block with the
\* procedure's procCode exists outside the definition's own stack (calls in
\* its own body do not count); otherwise the user is warned and the
\* workspace is unchanged.
C4_DeletionGuard ==
  DeleteRequested =>
    IF OutsideCalls = {}
    THEN /\ \A b \in DefinitionSubtree : ~blocks[b].alive
         /\ alert = ""
    ELSE /\ alert = "PROCEDURE_USED"
         /\ blocks = prevBlocks

\* A definition whose body calls its own procedure was deleted.
C4_Witness ==
  /\ DeleteRequested
  /\ OutsideCalls = {}
  /\ CallsOf(prevBlocks, lastOp.name) # {}
  /\ ~blocks[lastOp.block].alive

\* The argument reporters a rename looks at: the non-shadow ones below the
\* procedure's definition block.
BodyReporters ==
  {r \in Ids(prevBlocks) :
     /\ prevBlocks[r].alive
     /\ prevBlocks[r].type \in ArgumentReporterTypes
     /\ ~prevBlocks[r].shadow
     /\ \E d \in DefinitionOf(prevBlocks, lastOp.name) :
          r \in Descendants(prevBlocks, d)}

\* The display names the prototype had.
PrevNamesOf(p) == prevBlocks[p].displayNames

\* The edit keeps the prototype's signature and argument ids: it can only
\* change display names (and warp).
RenameOnly(p) ==
  /\ lastOp.mutation.proccode = prevBlocks[p].procCode
  /\ lastOp.mutation.argumentids = prevBlocks[p].argumentIds

\* The slots of prototype p whose display name the edit changes and whose
\* old display name is label.
RenamedFrom(p, label) ==
  {i \in 1..Len(PrevNamesOf(p)) :
     /\ PrevNamesOf(p)[i] # lastOp.mutation.argumentnames[i]
     /\ PrevNamesOf(p)[i] = label}

Max(S) == CHOOSE x \in S : \A y \in S : y <= x

\* C5 as stated: when a prototype mutation keeps the slot ids and changes
\* only display names, every non-shadow argument reporter below the
\* definition whose label is the old display name of a renamed slot gets
\* that slot's new display name.
C5_ReportersGetSlotsNewName ==
  Propagated =>
    \A p \in PrototypeOf(prevBlocks, lastOp.name) :
      RenameOnly(p) =>
        \A r \in BodyReporters :
          \A i \in RenamedFrom(p, prevBlocks[r].value) :
            blocks[r].value = lastOp.mutation.argumentnames[i]

\* C5, amended: under such a mutation every non-shadow argument reporter
\* below the definition whose label is the old display name of a renamed
\* slot gets the new display name of the last renamed slot, in argument
\* order, that had this old display name.
C5_ReportersGetLastMatchingName ==
  Propagated =>
    \A p \in PrototypeOf(prevBlocks, lastOp.name) :
      RenameOnly(p) =>
        \A r \in BodyReporters :
          RenamedFrom(p, prevBlocks[r].value) # {} =>
            blocks[r].value =
              lastOp.mutation.argumentnames[
                Max(RenamedFrom(p, prevBlocks[r].value))]

\* A rename gave a reporter in the definition's body a new label.
C5_Witness ==
  /\ Propagated
  /\ \E p \in PrototypeOf(prevBlocks, lastOp.name) :
       /\ RenameOnly(p)
       /\ \E r \in BodyReporters :
            /\ RenamedFrom(p, prevBlocks[r].value) # {}
            /\ blocks[r].value # prevBlocks[r].value

\* C6: a prototype mutation changes the label of an argument reporter only
\* if the reporter is below the procedure's own definition block and a slot
\* id that the previous id list already had changes its display name from
\* the reporter's label to the reporter's new label: never the label of a
\* reporter elsewhere, never on account of an added or a removed slot id.
C6_RelabelOnlyOwnSurvivingSlots ==
  Committed =>
    \A r \in Ids(prevBlocks) :
      /\ prevBlocks[r].alive
      /\ prevBlocks[r].type \in ArgumentReporterTypes
      /\ blocks[r].value # prevBlocks[r].value
      => \E p \in PrototypeOf(prevBlocks, lastOp.name) :
           /\ r \in Descendants(prevBlocks, prevBlocks[p].parent)
           /\ \E i \in 1..Len(lastOp.mutation.argumentids),
                 j \in 1..Len(prevBlocks[p].argumentIds) :
                /\ prevBlocks[p].argumentIds[j] = lastOp.mutation.argumentids[i]
                /\ PrevNamesOf(p)[j] # lastOp.mutation.argumentnames[i]
                /\ prevBlocks[r].value = PrevNamesOf(p)[j]
                /\ blocks[r].value = lastOp.mutation.argumentnames[i]

\* A rename relabelled a reporter in the procedure's body while a reporter
\* with the same label below another definition kept its label.
C6_Witness ==
  /\ Propagated
  /\ \E r \in BodyReporters : blocks[r].value # prevBlocks[r].value
  /\ \E r \in BodyReporters, o \in Ids(prevBlocks) \ BodyReporters :
       /\ prevBlocks[o].alive
       /\ prevBlocks[o].type \in ArgumentReporterTypes
       /\ ~prevBlocks[o].shadow
       /\ prevBlocks[o].value = prevBlocks[r].value
       /\ blocks[r].value # prevBlocks[r].value
       /\ blocks[o].value = prevBlocks[o].value

\* C7: when the new signature fails to parse while a mutation is applied,
\* the block is not partially mutated: its procCode, argumentIds, names,
\* defaults and warp, its input sockets and its attached child blocks are
\* what they were before the attempt.
C7_NoPartialMutation ==
  /\ Committed
  /\ DefinitionsOf(prevBlocks, lastOp.name) # {}
  /\ ~Parses(lastOp.mutation.proccode)
  => \A b \in Affected :
       /\ blocks[b] = prevBlocks[b]
       /\ \A c \in Children(prevBlocks, b) : blocks[c] = prevBlocks[c]

\* C8: when an edit is opened or committed for a procedure whose signature
\* has no definition with a prototype on the workspace, the user is told,
\* the operation ends there and no block is changed.
C8_MissingDefinitionReported ==
  /\ lastOp.op \in {"open", "commit"}
  /\ DefinitionsOf(prevBlocks, lastOp.name) = {}
  => /\ alert # ""
     /\ ~thrown
     /\ blocks = prevBlocks

\* The groups of the events the last user action fired.
EventGroups == {events[i].group : i \in 1..Len(events)}

ChangeEventBlocks ==
  {events[i].block : i \in {k \in 1..Len(events) : events[k].type = "change"}}

----------------------------------------------------------------------------
(* Properties of LoadSpec.                                                 *)

\* The element the block of LoadSpec would be saved as.
Saved == mutationToDom(blocks, 1)

\* C11: saving a block right after it loaded a persisted mutation writes
\* the attributes it read: proccode, argumentids and warp on a call, and
\* argumentnames and argumentdefaults too on a prototype and a declaration.
C11_LoadThenSave ==
  lastOp.op = "load" =>
    /\ {"proccode", "argumentids", "warp"} \subseteq Saved.has
    /\ Saved.proccode = lastOp.mutation.proccode
    /\ Saved.argumentids = lastOp.mutation.argumentids
    /\ Saved.warp = lastOp.mutation.warp
    /\ blocks[1].type # PROCEDURES_CALL_BLOCK_TYPE =>
         /\ {"argumentnames", "argumentdefaults"} \subseteq Saved.has
         /\ Saved.argumentnames = lastOp.mutation.argumentnames
         /\ Saved.argumentdefaults = lastOp.mutation.argumentdefaults

C11_Witness ==
  /\ lastOp.op = "load" /\ ~thrown
  /\ blocks[1].type = PROCEDURES_DECLARATION_BLOCK_TYPE
  /\ lastOp.mutation.warp = "true"
  /\ Len(ValueInputNames(blocks, 1)) = 1
  /\ Saved.argumentdefaults = <<"", "false">>

\* The tokens a declaration shows: the text of each label and the kind of
\* each socket, a string-or-number socket being the same for %n and %s.
Tokens(inputs) ==
  [i \in 1..Len(inputs) |->
     IF inputs[i].type = "dummy" THEN <<"label", inputs[i].text>>
     ELSE <<"socket", IF inputs[i].check = "Boolean" THEN "b" ELSE "s">>]

\* C12: the signature a declaration writes back (updateDeclarationProcCode_)
\* after it built its inputs from a signature that parses is equivalent to
\* that signature: parsing it again gives the same labels and the same
\* kinds of sockets.
C12_RoundTrip ==
  (lastOp.op = "change" /\ ~thrown) =>
    LET again == updateDisplay_(World, 1)
    IN  /\ ~again.thrown
        /\ Tokens(again.blocks[1].inputs) = Tokens(blocks[1].inputs)

\* The positions of the unescaped placeholders %n, %b, %s of a signature.
Placeholders(s) ==
  {k \in 1..(Len(s) - 1) :
     /\ s[k] = "%" /\ s[k + 1] \in {"n", "b", "s"}
     /\ (k = 1 \/ s[k - 1] # "\\")}

\* Every percent sign of s is escaped or starts a placeholder.
WellFormed(s) ==
  \A k \in 1..Len(s) :
    s[k] = "%" => \/ k \in Placeholders(s)
                  \/ (k > 1 /\ s[k - 1] = "\\")

\* C13: loading a signature in which every percent sign is escaped or
\* starts %n, %b or %s gives the block one socket per unescaped
\* placeholder, in the order of the signature, the k-th socket named by
\* the k-th argument id and of the placeholder's kind, whatever character
\* stands before the percent sign.
C13_OneSocketPerPlaceholder ==
  (lastOp.op = "load" /\ WellFormed(lastOp.name)) =>
    LET at == SortedSeq(Placeholders(lastOp.name))
        sockets == SelectSeq(blocks[1].inputs, LAMBDA i : i.type = "value")
    IN  /\ ~thrown
        /\ Len(sockets) = Len(at)
        /\ \A k \in 1..Len(at) :
             /\ sockets[k].name = lastOp.mutation.argumentids[k]
             /\ (sockets[k].check = "Boolean") = (lastOp.name[at[k] + 1] = "b")

\* The positions of the unescaped percent signs of s that a letter other
\* than n, b and s follows.
InvalidPlaceholders(s) ==
  {k \in 1..(Len(s) - 1) :
     /\ s[k] = "%" /\ s[k + 1] = "a"
     /\ (k = 1 \/ s[k - 1] # "\\")}

\* C14: loading a signature that holds, anywhere, an unescaped percent sign
\* followed by a letter other than n, b and s ends in the invalid-type
\* error; the placeholder is never kept as label text.
C14_InvalidTypeRejected ==
  (lastOp.op = "load" /\ InvalidPlaceholders(lastOp.name) # {}) => thrown

\* t with every escaped percent sign replaced by a percent sign.
RECURSIVE UnescapeAll(_)
UnescapeAll(t) ==
  IF Len(t) < 2 THEN t
  ELSE IF t[1] = "\\" /\ t[2] = "%"
  THEN <<"%">> \o UnescapeAll(SubSeq(t, 3, Len(t)))
  ELSE <<t[1]>> \o UnescapeAll(Tail(t))

\* C15: a signature made of label text only, every percent sign of it
\* escaped, is shown as one label whose text is the signature with each
\* escaped percent sign unescaped, however many there are (a declaration
\* shows no label for an empty text).
C15_EveryEscapeUnescaped ==
  (/\ lastOp.op = "load"
   /\ WellFormed(lastOp.name) /\ Placeholders(lastOp.name) = {}) =>
    LET t == UnescapeAll(trim(lastOp.name))
    IN  /\ ~thrown
        /\ Tokens(blocks[1].inputs) =
             IF blocks[1].type = PROCEDURES_DECLARATION_BLOCK_TYPE /\ t = <<>>
             THEN <<>> ELSE << <<"label", t>> >>

\* The type letters of the placeholders createAllInputs_ finds, in order.
ArgumentLetters(procCode) ==
  LET args == SelectSeq(procComponents(procCode), isArgument)
  IN  [k \in 1..Len(args) |-> args[k][2]]

\* The block in the k-th socket of the loaded call is a shadow of the type
\* and with the value given.
ShadowIn(k, type, value) ==
  LET t == targetBlock(blocks, 1, lastOp.mutation.argumentids[k])
  IN  /\ t # 0 /\ blocks[t].shadow
      /\ blocks[t].type = type /\ blocks[t].value = value

\* A call block without attached blocks has loaded a signature that parses.
CallLoaded ==
  /\ lastOp.op = "load" /\ ~thrown
  /\ blocks[1].type = PROCEDURES_CALL_BLOCK_TYPE

\* C16 as stated: on a call with generateShadows every empty number socket
\* and every empty string socket gets a math_number shadow holding "1", a
\* boolean socket gets none, and without generateShadows no socket gets one.
C16_NumberShadowForStringToo ==
  CallLoaded =>
    \A k \in 1..Len(ArgumentLetters(lastOp.name)) :
      IF lastOp.mutation.generateshadows = "true"
         /\ ArgumentLetters(lastOp.name)[k] \in {"n", "s"}
      THEN ShadowIn(k, "math_number", "1")
      ELSE targetBlock(blocks, 1, lastOp.mutation.argumentids[k]) = 0

\* C16: on a call with generateShadows an empty number socket gets a
\* math_number shadow holding "1", an empty string socket a text shadow
\* holding the empty string, a boolean socket none; without generateShadows
\* no socket gets a shadow.
C16_DefaultShadowByKind ==
  CallLoaded =>
    \A k \in 1..Len(ArgumentLetters(lastOp.name)) :
      IF lastOp.mutation.generateshadows # "true"
         \/ ArgumentLetters(lastOp.name)[k] = "b"
      THEN targetBlock(blocks, 1, lastOp.mutation.argumentids[k]) = 0
      ELSE IF ArgumentLetters(lastOp.name)[k] = "n"
      THEN ShadowIn(k, "math_number", "1")
      ELSE ShadowIn(k, "text", "")

C16_Witness ==
  /\ CallLoaded /\ lastOp.mutation.generateshadows = "true"
  /\ ArgumentLetters(lastOp.name) = <<"s">>
  /\ ShadowIn(1, "text", "")

----------------------------------------------------------------------------
(* Properties of Spec: the prototype's rebuild.                            *)

\* The argument reporter type that shows an argument of the type letter.
ReporterFor(letter) ==
  IF letter = "b" THEN "argument_reporter_boolean"
  ELSE "argument_reporter_string_number"

\* The block in socket x of prototype p before and after the edit.
OldAt(p, x) == targetBlock(prevBlocks, p, x)
NewAt(p, x) == targetBlock(blocks, p, x)

\* Socket k of the edit keeps the block it held before: a reporter of the
\* kind the edit gives the socket was attached to it.
Kept(p, k) ==
  /\ OldAt(p, lastOp.mutation.argumentids[k]) # 0
  /\ prevBlocks[OldAt(p, lastOp.mutation.argumentids[k])].type =
       ReporterFor(ArgumentLetters(lastOp.mutation.proccode)[k])

\* C17: after an edit reached the prototype, each socket x of the new
\* signature holds, when a reporter of the socket's new kind was attached
\* to x before, that same block, alive and labelled with the new display
\* name; otherwise it holds a block created by the edit, a shadow reporter
\* of the new kind labelled with the new display name, and an old shadow
\* reporter of the other kind is disposed.
C17_PrototypeReusesMatchingReporter ==
  Propagated =>
    \A p \in PrototypeOf(prevBlocks, lastOp.name) :
      \A k \in 1..Len(lastOp.mutation.argumentids) :
        LET x == lastOp.mutation.argumentids[k]
        IN  /\ NewAt(p, x) # 0
            /\ blocks[NewAt(p, x)].alive
            /\ blocks[NewAt(p, x)].value = lastOp.mutation.argumentnames[k]
            /\ IF Kept(p, k)
               THEN NewAt(p, x) = OldAt(p, x)
               ELSE /\ NewAt(p, x) \notin Ids(prevBlocks)
                    /\ blocks[NewAt(p, x)].shadow
                    /\ blocks[NewAt(p, x)].type =
                         ReporterFor(
                           ArgumentLetters(lastOp.mutation.proccode)[k])
                    /\ (OldAt(p, x) # 0 /\ prevBlocks[OldAt(p, x)].shadow)
                         => ~blocks[OldAt(p, x)].alive

\* An edit after which one socket of the prototype keeps its reporter under
\* a new name and another socket holds a reporter the edit created.
C17_Witness ==
  /\ Propagated
  /\ \E p \in PrototypeOf(prevBlocks, lastOp.name) :
       \E k, j \in 1..Len(lastOp.mutation.argumentids) :
         /\ Kept(p, k)
         /\ NewAt(p, lastOp.mutation.argumentids[k]) =
              OldAt(p, lastOp.mutation.argumentids[k])
         /\ prevBlocks[OldAt(p, lastOp.mutation.argumentids[k])].value #
              blocks[OldAt(p, lastOp.mutation.argumentids[k])].value
         /\ ~Kept(p, j)
         /\ NewAt(p, lastOp.mutation.argumentids[j]) \notin Ids(prevBlocks)

----------------------------------------------------------------------------
(* Properties of DeclarationSpec.                                          *)

\* The last user action was a button of the editor that rebuilt the
\* declaration.
Rebuilt ==
  /\ lastOp.op \in {"addLabel", "addBoolean", "addStringNumber", "removeField"}
  /\ ~thrown

\* The argument editor type that edits a socket with the given check.
EditorFor(check) ==
  IF check = "Boolean" THEN "argument_editor_boolean"
  ELSE "argument_editor_string_number"

\* C18: after a rebuild of the declaration, a socket x to which an argument
\* editor of the socket's kind was attached before holds that same editor,
\* and a socket holds an editor the rebuild created only when no such
\* editor was attached to it.
C18_DeclarationReusesMatchingEditor ==
  Rebuilt =>
    \A i \in 1..Len(blocks[1].inputs) :
      blocks[1].inputs[i].type = "value" =>
        LET x == blocks[1].inputs[i].name
            old == targetBlock(prevBlocks, 1, x)
        IN  IF old # 0 /\ prevBlocks[old].type =
                            EditorFor(blocks[1].inputs[i].check)
            THEN targetBlock(blocks, 1, x) = old
            ELSE targetBlock(blocks, 1, x) \notin Ids(prevBlocks)

\* seq without its n-th element.
Without(seq, n) ==
  [i \in 1..(Len(seq) - 1) |-> IF i < n THEN seq[i] ELSE seq[i + 1]]

\* The position among the sockets of the n-th input of the declaration
\* before the last action (the input being a socket).
SocketIndex(n) ==
  Cardinality({i \in 1..n : prevBlocks[1].inputs[i].type = "value"})

\* The slot ids the last action should leave, given those it found: all of
\* them in their order, without the one whose field was removed.
Surviving(old) ==
  IF /\ lastOp.op = "removeField"
     /\ Len(prevBlocks[1].inputs) > 1
     /\ prevBlocks[1].inputs[lastOp.block].type = "value"
  THEN Without(old, SocketIndex(lastOp.block))
  ELSE old

\* C19: every button of the declaration editor leaves the slot ids of the
\* surviving arguments unchanged and in their order, on the sockets and in
\* argumentIds_; add-boolean and add-string/number append one id that no
\* socket and no argument of the block carried, add-label and remove-field
\* add none.
C19_SlotIdsStable ==
  Rebuilt =>
    LET old == ValueInputNames(prevBlocks, 1)
        new == ValueInputNames(blocks, 1)
        kept == Surviving(old)
    IN  /\ blocks[1].argumentIds = new
        /\ IF lastOp.op \in {"addBoolean", "addStringNumber"}
           THEN /\ Len(new) = Len(kept) + 1
                /\ SubSeq(new, 1, Len(kept)) = kept
                /\ new[Len(new)] \notin SetOf(old)
                                          \cup SetOf(prevBlocks[1].argumentIds)
           ELSE new = kept

----------------------------------------------------------------------------
(* Properties of Spec: renames that form a swap or a chain.                *)

\* The edit of prototype p renames a slot to the old display name of
\* another slot, the old display names being pairwise different.
Chained(p) ==
  /\ RenameOnly(p)
  /\ Len(lastOp.mutation.argumentnames) = Len(PrevNamesOf(p))
  /\ \A i, j \in 1..Len(PrevNamesOf(p)) :
       i # j => PrevNamesOf(p)[i] # PrevNamesOf(p)[j]
  /\ \E i, j \in 1..Len(PrevNamesOf(p)) :
       /\ i # j
       /\ lastOp.mutation.argumentnames[i] # PrevNamesOf(p)[i]
       /\ lastOp.mutation.argumentnames[i] = PrevNamesOf(p)[j]

\* C20: when one edit renames several arguments so that a new name is
\* another argument's old name, every non-shadow argument reporter below
\* the definition that carried the old name of slot i carries the new name
\* of slot i afterwards, whatever the other slots are renamed to; a
\* reporter that carried no slot's old name keeps its label.
C20_RenamesAreSimultaneous ==
  Propagated =>
    \A p \in PrototypeOf(prevBlocks, lastOp.name) :
      Chained(p) =>
        \A r \in BodyReporters :
          /\ \A i \in 1..Len(PrevNamesOf(p)) :
               prevBlocks[r].value = PrevNamesOf(p)[i] =>
                 blocks[r].value = lastOp.mutation.argumentnames[i]
          /\ (\A i \in 1..Len(PrevNamesOf(p)) :
                prevBlocks[r].value # PrevNamesOf(p)[i]) =>
               blocks[r].value = prevBlocks[r].value

\* Two reporters in the definition's body exchanged their labels.
C20_Witness ==
  /\ Propagated
  /\ \E p \in PrototypeOf(prevBlocks, lastOp.name) :
       /\ Chained(p)
       /\ \E r, q \in BodyReporters :
            /\ r # q
            /\ prevBlocks[r].value # prevBlocks[q].value
            /\ blocks[r].value = prevBlocks[q].value
            /\ blocks[q].value = prevBlocks[r].value

----------------------------------------------------------------------------
(* Properties of DeclarationSpec: the parallel argument arrays.            *)

\* The sockets of the declaration, in order.
DeclarationSockets ==
  SelectSeq(blocks[1].inputs, LAMBDA i : i.type = "value")

\* C21: after every button of the declaration editor, argumentIds_,
\* displayNames_ and argumentDefaults_ are as long as the block has
\* sockets, and entry i of each describes the i-th socket: its name, the
\* text of its editor, and the default of its kind ("false" for a boolean
\* argument, "" for a string or number argument).
C21_ParallelArrays ==
  Rebuilt =>
    /\ Len(blocks[1].argumentIds) = Len(DeclarationSockets)
    /\ Len(blocks[1].displayNames) = Len(DeclarationSockets)
    /\ Len(blocks[1].argumentDefaults) = Len(DeclarationSockets)
    /\ \A i \in 1..Len(DeclarationSockets) :
         /\ blocks[1].argumentIds[i] = DeclarationSockets[i].name
         /\ blocks[1].displayNames[i] =
              blocks[targetBlock(blocks, 1, DeclarationSockets[i].name)].value
         /\ blocks[1].argumentDefaults[i] =
              IF DeclarationSockets[i].check = "Boolean" THEN "false" ELSE ""

----------------------------------------------------------------------------
(* Properties of TwinSpec.                                                 *)

\* The live prototype blocks of the workspace bs.
Prototypes(bs) ==
  {p \in Ids(bs) : bs[p].alive
                   /\ bs[p].type = PROCEDURES_PROTOTYPE_BLOCK_TYPE}

\* C22: when an edit opened from a definition block or from its prototype
\* is committed with a signature that parses, the prototype that carries
\* the edit afterwards is the prototype of the block the edit was opened
\* from, and every other prototype is left as it was, also when another
\* definition carries the same procCode.
C22_OwnPrototypeEdited ==
  (/\ Committed /\ lastOp.block # 0
   /\ Parses(lastOp.mutation.proccode)
   /\ prevBlocks[lastOp.block].alive) =>
    /\ blocks[lastOp.block].procCode = lastOp.mutation.proccode
    /\ blocks[lastOp.block].argumentIds = lastOp.mutation.argumentids
    /\ blocks[lastOp.block].displayNames = lastOp.mutation.argumentnames
    /\ \A p \in Prototypes(prevBlocks) \ {lastOp.block} :
         /\ blocks[p].procCode = prevBlocks[p].procCode
         /\ blocks[p].argumentIds = prevBlocks[p].argumentIds
         /\ blocks[p].displayNames = prevBlocks[p].displayNames

----------------------------------------------------------------------------
(* Properties of Spec: the shadows of a mutated call.                      *)

\* C23: after an edit reached a call block, every shadow block that was
\* attached to a socket of the call before is attached to the call or
\* disposed, also when the edit changes the kind of the socket's slot; none
\* is alive and attached to nothing.
C23_NoDetachedShadow ==
  Propagated =>
    \A b \in CallsOf(prevBlocks, lastOp.name) :
      \A c \in Children(prevBlocks, b) :
        prevBlocks[c].shadow =>
          \/ ~blocks[c].alive
          \/ blocks[c].parent = b

----------------------------------------------------------------------------
(* Properties of LoadSpec: saving and loading again.                       *)

\* C24: a call block that is saved with mutationToDom and loads the saved
\* element has the generateShadows setting it had before.
C24_GenerateShadowsSurvives ==
  (lastOp.op = "reload" /\ blocks[1].type = PROCEDURES_CALL_BLOCK_TYPE) =>
    blocks[1].generateShadows = prevBlocks[1].generateShadows

----------------------------------------------------------------------------
(* Properties of CreateSpec.                                               *)

\* C25: the group opened by the creation of a procedure belongs to the
\* creation alone: the events of a user action that runs while the
\* positioning of the new block is still queued are not in that group, and
\* the move event of the positioning is in the group of the create event.
C25_CreationGroupExclusive ==
  /\ (pending # <<>> /\ lastOp.op # "create") =>
       \A i \in 1..Len(events) : events[i].group # pending[1].group
  /\ lastOp.op = "position" =>
       \A i \in 1..Len(events) : events[i].group = lastOp.name[1]


\* C26: the workspace carries the "boundless" class only while a drag is in
\* progress: once a drag has ended, whether the drop was carried out or
\* rejected, the class is removed.
C26_BoundlessOnlyWhileDragging == draggable = 0 => ~boundless

DragOutsideEvents(es) == SelectSeq(es, LAMBDA e : e.type = "dragOutside")

\* C27: within one drag a BlockDragOutside event is fired exactly when the
\* pointer's status differs from the recorded one; the event carries the
\* negation of the status recorded before and becomes the recorded status, a
\* drag starts with the status "inside", and a BlockDragEnd event carries the
\* status recorded last.
C27_DragOutsideAlternates ==
  [][ /\ lastOp'.op = "dragStart" => ~draggedOutOfBounds'
      /\ lastOp'.op \in {"drag", "dragEnd"} =>
           LET out == DragOutsideEvents(events')
           IN  /\ Len(out) <= 1
               /\ Len(out) = 1 => /\ out[1].isOutside = ~draggedOutOfBounds
                                  /\ draggedOutOfBounds' = out[1].isOutside
               /\ Len(out) = 0 => draggedOutOfBounds' = draggedOutOfBounds
               /\ \A i \in 1..Len(events') :
                    events'[i].type = "endDrag" =>
                      events'[i].isOutside = draggedOutOfBounds'
      /\ lastOp'.op = "drag" =>
           /\ draggedOutOfBounds' = ~lastOp'.flag
           /\ (Len(DragOutsideEvents(events')) = 1)
                <=> ((~lastOp'.flag) # draggedOutOfBounds) ]_vars

C27_Witness ==
  /\ lastOp.op = "dragEnd"
  /\ \E i \in 1..Len(events) :
       events[i].type = "dragOutside" /\ ~events[i].isOutside
  /\ \E i \in 1..Len(events) :
       events[i].type = "endDrag" /\ ~events[i].isOutside

\* C28: the declaration block never loses its last input: after any label
\* edit and any removal of a field it still has at least one input.
C28_AtLeastOneInput == Len(blocks[1].inputs) >= 1

----------------------------------------------------------------------------
(* Properties of VariablesSpec.                                            *)

QueuedIds ==
  [i \in 1..Len(postRenderCallbacks) |-> postRenderCallbacks[i].id]

C30_CallbackOncePerPrompt ==
  [][ lastOp'.op = "createVariable" =>
        /\ Len(calls') = 1
        /\ IF variableMap' # variableMap
           THEN /\ Len(variableMap') = Len(variableMap) + 1
                /\ SubSeq(variableMap', 1, Len(variableMap)) = variableMap
                /\ variableMap'[Len(variableMap')].type = lastOp'.name.type
                /\ calls'[1] = variableMap'[Len(variableMap')].id
           ELSE calls'[1] =
                  IF lastOp'.name.type = BROADCAST_MESSAGE_VARIABLE_TYPE
                  THEN getVariable(World, lastOp'.name.text,
                                   BROADCAST_MESSAGE_VARIABLE_TYPE)
                  ELSE "null" ]_vars

====
